---- MODULE Spec2Model ----
(***************************************************************************)
(* Multi-output modular exponentiation (jiajunxin/multiexp).               *)
(*                                                                         *)
(* Digit vectors (nat) are sequences of W-bit digits, least significant    *)
(* first; index i of the Go code is index i+1 here.  The kernel            *)
(* (montgomery, gcw, the engines) is translated digit by digit; the        *)
(* exported calls are actions over the call's inputs.                      *)
(***************************************************************************)
EXTENDS Integers, Naturals, Sequences, FiniteSets, TLC

\* ---------------------------------------------------------------- bounds
\* Word width in bits (_W); the build has 32 or 64, the model a small width.
W == 2
\* Largest number of worker routines of ExpParallel that is explored.
MaxRoutines == 2

\* defaultWordChunkSize
defaultWordChunkSize == 4

\* _B, the digit base.
B == 2^W

\* A Go assignment v := e evaluates e once; Bind(e, F) is F(v) for that value.
Bind(e, F(_)) == CHOOSE r \in { F(v) : v \in {e} } : TRUE

\* ---------------------------------------------------------------- digits
RECURSIVE Val(_)
\* Value of a digit vector.
Val(z) == IF Len(z) = 0 THEN 0 ELSE Head(z) + B * Val(Tail(z))

\* The n low digits of the value v.
ToDigits(v, n) == [i \in 1..n |-> (v \div (B^(i-1))) % B]

RECURSIVE norm(_)
\* nat.norm: drop the most-significant zero digits.
norm(z) == IF Len(z) > 0 /\ z[Len(z)] = 0 THEN norm(SubSeq(z, 1, Len(z)-1)) ELSE z

RECURSIVE Bits(_)
\* big.Int.Bits / newNat of a non-negative Int: its normalized digits.
Bits(v) == IF v <= 0 THEN <<>> ELSE <<v % B>> \o Bits(v \div B)

\* nat.make(n) followed by copy(z, x): x in n digits, zero padded.
padTo(x, n) == [i \in 1..n |-> IF i <= Len(x) THEN x[i] ELSE 0]

\* SetBits that keeps the digits as they are.
SetBitsRaw(z) == z

\* big.Int.SetBits: takes the digits and normalizes them.
SetBits(z) == norm(z)

\* nat.cmp: lengths first, then digits from the most significant.
RECURSIVE cmpDigits(_, _, _)
cmpDigits(x, y, i) ==
    IF i = 0 THEN 0
    ELSE IF x[i] < y[i] THEN -1
    ELSE IF x[i] > y[i] THEN 1
    ELSE cmpDigits(x, y, i-1)

cmp(x, y) ==
    IF Len(x) < Len(y) THEN -1
    ELSE IF Len(x) > Len(y) THEN 1
    ELSE cmpDigits(x, y, Len(x))

\* nat.sub for len(x) >= len(y) and x >= y: normalized difference.
sub(x, y) == norm(ToDigits(Val(x) - Val(y), Len(x)))

\* nat.div: the remainder r = u % v, normalized (v # 0).
divRem(u, v) == Bits(Val(u) % Val(v))

\* Bit j of the digit d (d & masks[j] == masks[j]).
Bit(d, j) == (d \div (2^j)) % 2

RECURSIVE AndW(_, _, _)
\* a & b on digits, from bit j upwards.
AndW(a, b, j) == IF j >= W THEN 0 ELSE (2^j) * Bit(a, j) * Bit(b, j) + AndW(a, b, j+1)

\* ------------------------------------------------------------ montgomery
\* One iteration i of the loop of nat.montgomery on the 2n-digit
\* accumulator held as the integer Z, with the running carry c.
montStep(Z, c, x, y, m, k, n, i) ==
    LET d   == y[i+1]
        w1  == (Z \div (B^i)) % (B^n)
        t1  == w1 + Val(x) * d
        c2  == t1 \div (B^n)
        Z1  == Z - w1 * (B^i) + (t1 % (B^n)) * (B^i)
        t   == (((Z1 \div (B^i)) % B) * k) % B
        w2  == (Z1 \div (B^i)) % (B^n)
        t2  == w2 + Val(m) * t
        c3  == t2 \div (B^n)
        Z2  == Z1 - w2 * (B^i) + (t2 % (B^n)) * (B^i)
        cx  == (c + c2) % B
        cy  == (cx + c3) % B
        Z3  == Z2 + cy * (B^(n+i))
    IN  [Z |-> Z3, c |-> IF cx < c2 \/ cy < c3 THEN 1 ELSE 0]

RECURSIVE montLoop(_, _, _, _, _, _, _, _)
montLoop(Z, c, x, y, m, k, n, i) ==
    IF i >= n THEN [Z |-> Z, c |-> c]
    ELSE Bind(montStep(Z, c, x, y, m, k, n, i),
              LAMBDA s : montLoop(s.Z, s.c, x, y, m, k, n, i+1))

\* nat.montgomery aborts on operands whose length is not n.
montgomeryPanics(x, y, m, n) == Len(x) # n \/ Len(y) # n \/ Len(m) # n

\* nat.montgomery that copies z[n:] whatever the carry is.
montgomeryNoSub(x, y, m, k, n) ==
    Bind(montLoop(0, 0, x, y, m, k, n, 0), LAMBDA r : ToDigits(r.Z \div (B^n), n))

\* nat.montgomery: z = x*y*2^(-n*W) mod m in n digits, possibly >= m.
montgomery(x, y, m, k, n) ==
    Bind(montLoop(0, 0, x, y, m, k, n, 0),
         LAMBDA r : IF r.c # 0
                    THEN ToDigits(((r.Z \div (B^n)) - Val(m)) % (B^n), n)
                    ELSE ToDigits(r.Z \div (B^n), n))

\* ------------------------------------------------------- reference (math/big)
RECURSIVE PowMod(_, _, _)
\* b^e mod m by e multiplications (m > 0).
PowMod(b, e, m) == IF e = 0 THEN 1 % m ELSE (b * PowMod(b, e-1, m)) % m

RECURSIVE RefExp(_, _, _)
\* big.Int.Exp(x, y, m) for x >= 0, y >= 0 given by its digits yd, m > 0:
\* x^y mod m, scanning y from its most significant digit.
RefExp(x, yd, m) ==
    IF Len(yd) = 0 THEN 1 % m
    ELSE (PowMod(RefExp(x, Tail(yd), m), B, m) * PowMod(x, Head(yd), m)) % m

\* defaultExp: one big.Int.Exp per exponent (given by its digits).
defaultExp(x, m, yList) == [i \in 1..Len(yList) |-> Bits(RefExp(x, yList[i], m))]

\* ------------------------------------------------------- Montgomery setup
RECURSIVE k0Loop(_, _, _)
\* for i := 1; i < _W; i <<= 1 { t *= t; k0 *= t + 1 }
k0Loop(k, t, i) ==
    IF i >= W THEN k
    ELSE LET t2 == (t * t) % B IN k0Loop((k * (t2 + 1)) % B, t2, 2 * i)

\* k0 = -m^-1 mod 2^W from the low digit m0 of m.
k0Of(m0) == (B - k0Loop((2 + B - m0) % B, (m0 + B - 1) % B, 1)) % B

\* x after "if len(x) > numWords: x = x mod m" and the zero padding; the
\* power1 multiplication does not take it.
setupReduced(x, m) ==
    LET x1 == IF Len(x) > Len(m) THEN divRem(x, m) ELSE x
    IN  IF Len(x1) < Len(m) THEN padTo(x1, Len(m)) ELSE x1

\* The operand of the power1 multiplication: xx, captured before the
\* reduction and the padding.
setupOperand(x, m) == x

\* RR = 2^(2*W*len(m)) mod m, padded to len(m) digits.
setupRR(m) == padTo(divRem(Bits(B^(2 * Len(m))), m), Len(m))

\* montgomerySetup(x, m) for m # 0.
montgomerySetup(x, m) ==
    LET numWords == Len(m)
        xx  == setupOperand(x, m)
        k0  == k0Of(m[1])
        RR  == setupRR(m)
        one == padTo(<<1>>, numWords)
    IN  IF montgomeryPanics(xx, RR, m, numWords)
        THEN [panic |-> TRUE, power0 |-> <<>>, power1 |-> <<>>, k0 |-> k0, numWords |-> numWords]
        ELSE [panic |-> FALSE,
              power0 |-> montgomery(one, RR, m, k0, numWords),
              power1 |-> montgomery(xx, RR, m, k0, numWords),
              k0 |-> k0, numWords |-> numWords]

\* ------------------------------------------------------ common-bit extractor
Min2(a, b) == IF a < b THEN a ELSE b

\* A gcw that copies no digit beyond the shorter input.
gcwShort(a, b) ==
    LET minWordLen == Min2(Len(a), Len(b))
        cw == [i \in 1..minWordLen |-> AndW(a[i], b[i], 0)]
    IN  << [i \in 1..Len(a) |-> IF i <= minWordLen THEN a[i] - cw[i] ELSE 0],
           [i \in 1..Len(b) |-> IF i <= minWordLen THEN b[i] - cw[i] ELSE 0],
           cw >>

\* gcw(a, b) = <<aExtra, bExtra, commonWords>>.
gcw(a, b) ==
    LET minWordLen == Min2(Len(a), Len(b))
        cw == [i \in 1..minWordLen |-> AndW(a[i], b[i], 0)]
    IN  << [i \in 1..Len(a) |-> IF i <= minWordLen THEN a[i] - cw[i] ELSE a[i]],
           [i \in 1..Len(b) |-> IF i <= minWordLen THEN b[i] - cw[i] ELSE b[i]],
           cw >>

\* fourfoldGCW(input) = the four residuals and the common words.
fourfoldGCW(input) ==
    LET minWordLen == Min2(Min2(Len(input[1]), Len(input[2])), Min2(Len(input[3]), Len(input[4])))
        cw == [i \in 1..minWordLen |->
                 AndW(AndW(input[1][i], input[2][i], 0), AndW(input[3][i], input[4][i], 0), 0)]
    IN  [k \in 1..5 |->
           IF k = 5 THEN cw
           ELSE [i \in 1..Len(input[k]) |->
                   IF i <= minWordLen THEN input[k][i] - cw[i] ELSE input[k][i]]]

\* A threefoldGCW that finds the common words and leaves the inputs alone.
threefoldGCWFresh(input) ==
    LET minWordLen == Min2(Min2(Len(input[1]), Len(input[2])), Len(input[3]))
    IN  << input[1], input[2], input[3],
           [i \in 1..minWordLen |-> AndW(AndW(input[1][i], input[2][i], 0), input[3][i], 0)] >>

\* threefoldGCW(input): the three inputs as overwritten in place, then the
\* common words.
threefoldGCW(input) ==
    LET minWordLen == Min2(Min2(Len(input[1]), Len(input[2])), Len(input[3]))
        cw == [i \in 1..minWordLen |-> AndW(AndW(input[1][i], input[2][i], 0), input[3][i], 0)]
    IN  [k \in 1..4 |->
           IF k = 4 THEN cw
           ELSE [i \in 1..Len(input[k]) |->
                   IF i <= minWordLen THEN input[k][i] - cw[i] ELSE input[k][i]]]

\* A decomposition that hands the engine the second and third vector as
\* they were before the last gcw.
fourfoldDecomposeKeep(y4) ==
    Bind(fourfoldGCW(y4), LAMBDA g0 :
    Bind(threefoldGCW(<<g0[1], g0[2], g0[3]>>), LAMBDA t1 :
    Bind(threefoldGCW(<<t1[1], t1[2], g0[4]>>), LAMBDA t2 :
    Bind(threefoldGCW(<<t2[1], t1[3], t2[3]>>), LAMBDA t3 :
    Bind(threefoldGCW(<<t2[2], t3[2], t3[3]>>), LAMBDA t4 :
    Bind(gcw(t3[1], t4[1]), LAMBDA p01 :
    Bind(gcw(t4[2], t4[3]), LAMBDA p23 :
    Bind(gcw(p01[1], p23[1]), LAMBDA p02 :
    Bind(gcw(p01[2], p23[2]), LAMBDA p13 :
    Bind(gcw(p02[1], p13[2]), LAMBDA p03 :
    Bind(gcw(p13[1], p02[2]), LAMBDA p12 :
        << p03[1], p13[1], p02[2], p03[2], g0[5], t1[4], t2[4], t3[4], t4[4],
           p01[3], p23[3], p02[3], p13[3], p03[3], p12[3] >> )))))))))))

\* The decomposition shared by the fourfold coordinators: the 15 vectors
\* handed to the engine, [y1', y2', y3', y4', c0123, c012, c013, c023, c123,
\* c01, c23, c02, c13, c03, c12].
fourfoldDecompose(y4) ==
    Bind(fourfoldGCW(y4), LAMBDA g0 :
    Bind(threefoldGCW(<<g0[1], g0[2], g0[3]>>), LAMBDA t1 :
    Bind(threefoldGCW(<<t1[1], t1[2], g0[4]>>), LAMBDA t2 :
    Bind(threefoldGCW(<<t2[1], t1[3], t2[3]>>), LAMBDA t3 :
    Bind(threefoldGCW(<<t2[2], t3[2], t3[3]>>), LAMBDA t4 :
    Bind(gcw(t3[1], t4[1]), LAMBDA p01 :
    Bind(gcw(t4[2], t4[3]), LAMBDA p23 :
    Bind(gcw(p01[1], p23[1]), LAMBDA p02 :
    Bind(gcw(p01[2], p23[2]), LAMBDA p13 :
    Bind(gcw(p02[1], p13[2]), LAMBDA p03 :
    Bind(gcw(p13[1], p02[2]), LAMBDA p12 :
        << p03[1], p12[1], p12[2], p03[2], g0[5], t1[4], t2[4], t3[4], t4[4],
           p01[3], p23[3], p02[3], p13[3], p03[3], p12[3] >> )))))))))))

\* ------------------------------------------------------------------ storage
\* The digit vectors of a call by reference: h is the sequence of vectors
\* that exist, a reference is an index into it.  The caller's exponents are
\* the first references, since Bits() hands over the digits of the Int, not a
\* copy.  Every operator below gives the storage after the call and the
\* references the call hands back.
storeAlloc(h, vs) == [h |-> h \o vs, out |-> [i \in 1..Len(vs) |-> Len(h) + i]]

\* gcw makes aExtra, bExtra and commonWords.
storeGcw(h, a, b) == storeAlloc(h, gcw(h[a], h[b]))

\* A fourfoldGCW that subtracts the common words in its inputs, as
\* threefoldGCW does, and makes the common words only.
storeFourfoldGCWInPlace(h, in) ==
    LET g == fourfoldGCW([i \in 1..4 |-> h[in[i]]])
    IN  [h |-> [r \in 1..(Len(h) + 1) |->
                  IF r = Len(h) + 1 THEN g[5]
                  ELSE IF \E i \in 1..4 : in[i] = r
                       THEN g[CHOOSE i \in 1..4 : in[i] = r]
                       ELSE h[r]],
         out |-> in \o <<Len(h) + 1>>]

\* fourfoldGCW makes its five outputs.
storeFourfoldGCW(h, in) == storeAlloc(h, fourfoldGCW([i \in 1..4 |-> h[in[i]]]))

\* threefoldGCW makes the common words and writes the three vectors it was
\* handed.
storeThreefoldGCW(h, in) ==
    LET t == threefoldGCW([i \in 1..3 |-> h[in[i]]])
    IN  [h |-> [r \in 1..(Len(h) + 1) |->
                  IF r = Len(h) + 1 THEN t[4]
                  ELSE IF \E i \in 1..3 : in[i] = r
                       THEN t[CHOOSE i \in 1..3 : in[i] = r]
                       ELSE h[r]],
         out |-> <<Len(h) + 1>>]

\* doubleExpNNMontgomery: the storage after gcw(y1, y2).
storeDouble(y2) == storeGcw(y2, 1, 2)

\* newNat: copies of the caller's exponents.
storeNewNat(y4) == storeAlloc(y4, y4)

\* fourfoldExpNNMontgomery and its precomputed variants: the storage after
\* the decomposition of the vectors in, and the references of the 15 vectors
\* handed to the engine, in the order of fourfoldDecompose.
storeFourfold(h0, in) ==
    Bind(storeFourfoldGCW(h0, in), LAMBDA g :
    Bind(storeThreefoldGCW(g.h, <<g.out[1], g.out[2], g.out[3]>>), LAMBDA t1 :
    Bind(storeThreefoldGCW(t1.h, <<g.out[1], g.out[2], g.out[4]>>), LAMBDA t2 :
    Bind(storeThreefoldGCW(t2.h, <<g.out[1], g.out[3], g.out[4]>>), LAMBDA t3 :
    Bind(storeThreefoldGCW(t3.h, <<g.out[2], g.out[3], g.out[4]>>), LAMBDA t4 :
    Bind(storeGcw(t4.h, g.out[1], g.out[2]), LAMBDA p01 :
    Bind(storeGcw(p01.h, g.out[3], g.out[4]), LAMBDA p23 :
    Bind(storeGcw(p23.h, p01.out[1], p23.out[1]), LAMBDA p02 :
    Bind(storeGcw(p02.h, p01.out[2], p23.out[2]), LAMBDA p13 :
    Bind(storeGcw(p13.h, p02.out[1], p13.out[2]), LAMBDA p03 :
    Bind(storeGcw(p03.h, p13.out[1], p02.out[2]), LAMBDA p12 :
        [h |-> p12.h,
         out |-> << p03.out[1], p12.out[1], p12.out[2], p03.out[2], g.out[5],
                    t1.out[1], t2.out[1], t3.out[1], t4.out[1],
                    p01.out[3], p23.out[3], p02.out[3], p13.out[3], p03.out[3],
                    p12.out[3] >>] )))))))))))

\* The vectors a list of references stands for.
storeValues(s) == [i \in 1..Len(s.out) |-> s.h[s.out[i]]]

\* ------------------------------------------------------------------ engines
\* max(1, longest exponent) in digits.
RECURSIVE maxWordLenOf(_)
maxWordLenOf(yList) ==
    IF Len(yList) = 0 THEN 1
    ELSE LET r == maxWordLenOf(Tail(yList))
         IN  IF Len(Head(yList)) > r THEN Len(Head(yList)) ELSE r

\* A test that takes every bit of a nonzero digit as set.
bitSetAny(y, i, j) == Len(y) > i /\ y[i+1] # 0

\* Exponent k has bit j of digit i set (i, j counted from 0).
bitSet(y, i, j) == Len(y) > i /\ Bit(y[i+1], j) = 1

\* A step of the ladder that leaves the running square as it is.
squareStepStale(squared, m, k0, numWords) == squared

\* The running square after one more step of the ladder.
squareStep(squared, m, k0, numWords) == montgomery(squared, squared, m, k0, numWords)

RECURSIVE mmLoop(_, _, _, _, _, _, _, _)
\* The double loop of multiMontgomery from bit position p = W*i + j on.
mmLoop(zList, squared, p, last, yList, m, k0, numWords) ==
    IF p >= last THEN zList
    ELSE Bind([k \in 1..Len(yList) |->
                 IF bitSet(yList[k], p \div W, p % W)
                 THEN montgomery(zList[k], squared, m, k0, numWords)
                 ELSE zList[k]], LAMBDA z2 :
         Bind(squareStep(squared, m, k0, numWords), LAMBDA sq :
              mmLoop(z2, sq, p+1, last, yList, m, k0, numWords)))

\* multiMontgomery: results in Montgomery form, not normalized.
multiMontgomery(m, power0, power1, k0, numWords, yList) ==
    mmLoop([k \in 1..Len(yList) |-> padTo(power0, numWords)], padTo(power1, numWords),
           0, W * maxWordLenOf(yList), yList, m, k0, numWords)

\* A multiplier taken from the first entry of row i whatever the bit.
tableEntryRow(table, i, j) == table[i+1][1]

\* The multiplier of bit j of digit i in the table-driven engines.
tableEntry(table, i, j) == table[i+1][j+1]

RECURSIVE mmTableLoop(_, _, _, _, _, _, _, _)
\* The double loop of the table-driven engine from bit position p on.
mmTableLoop(zList, p, last, yList, m, k0, numWords, table) ==
    IF p >= last THEN zList
    ELSE Bind([k \in 1..Len(yList) |->
                 IF bitSet(yList[k], p \div W, p % W)
                 THEN montgomery(zList[k], tableEntry(table, p \div W, p % W), m, k0, numWords)
                 ELSE zList[k]], LAMBDA z2 :
              mmTableLoop(z2, p+1, last, yList, m, k0, numWords, table))

\* The engine indexes table rows 0 .. maxLen-1 only when a bit of that
\* digit is set; a missing row aborts the call (index out of range).
tableCovers(table, yList) ==
    \A k \in 1..Len(yList) : \A i \in 1..Len(yList[k]) :
        yList[k][i] # 0 => i <= Len(table)

\* multiMontgomeryWithPreComputeTable / multiMontgomeryPrecomputedChan.
multiMontgomeryPrecomputed(m, power0, k0, numWords, yList, table) ==
    mmTableLoop([k \in 1..Len(yList) |-> padTo(power0, numWords)],
                0, W * maxWordLenOf(yList), yList, m, k0, numWords, table)

\* No last reduction.
finalReduceSkip(z, m) == z

\* The last reduction: subtract m once, divide if that was not enough.
finalReduce(z, m) ==
    IF cmp(z, m) >= 0
    THEN Bind(sub(z, m), LAMBDA s : IF cmp(s, m) >= 0 THEN divRem(s, m) ELSE s)
    ELSE z

RECURSIVE assembleLoop(_, _, _, _, _)
assembleLoop(prod, set, m, k0, numWords) ==
    IF Len(set) = 0 THEN prod
    ELSE Bind(montgomery(prod, Head(set), m, k0, numWords),
              LAMBDA p : assembleLoop(p, Tail(set), m, k0, numWords))

\* assembleAndConvert: multiply prod by every member of set, leave
\* Montgomery form, reduce below m.
assembleAndConvert(prod, set, m, k0, numWords) ==
    Bind(montgomery(assembleLoop(prod, set, m, k0, numWords), padTo(<<1>>, numWords),
                    m, k0, numWords),
         LAMBDA p : finalReduce(p, m))

\* The index sets with c123 in the place of c023 for output 0.
assembleSetSwapped(k) ==
    IF k = 1 THEN <<4, 5, 6, 8, 9, 11, 13>>
    ELSE IF k = 2 THEN <<4, 5, 6, 8, 9, 12, 14>>
    ELSE IF k = 3 THEN <<4, 5, 7, 8, 10, 11, 14>>
    ELSE <<4, 6, 7, 8, 10, 12, 13>>

\* The engine indices multiplied into output k (Go indices, from 0).
assembleSet(k) ==
    IF k = 1 THEN <<4, 5, 6, 7, 9, 11, 13>>
    ELSE IF k = 2 THEN <<4, 5, 6, 8, 9, 12, 14>>
    ELSE IF k = 3 THEN <<4, 5, 7, 8, 10, 11, 14>>
    ELSE <<4, 6, 7, 8, 10, 12, 13>>

\* assembleAndConvert(z[k-1], {z[i] : i in assembleSet(k)}, ...).
assembleOutput(z, k, m, k0, numWords) ==
    assembleAndConvert(z[k], [i \in 1..7 |-> z[assembleSet(k)[i] + 1]], m, k0, numWords)

\* ------------------------------------------------------- precompute table
RECURSIVE squareChain(_, _, _, _, _)
\* The cnt successive values copied into the table, starting at squared.
squareChain(squared, cnt, m, k0, numWords) ==
    IF cnt = 0 THEN <<>>
    ELSE Bind(squareStep(squared, m, k0, numWords),
              LAMBDA sq : <<squared>> \o squareChain(sq, cnt-1, m, k0, numWords))

\* The result of a call that aborted or returned nil.
NoTable(st) == [status |-> st, Base |-> 0, Modulus |-> 0, TableSize |-> 0, table |-> <<>>]

\* NewPrecomputeTable(base, modular, tableSize): status "nil" for a
\* rejected input, "panic" when the setup aborts, "ok" with the table.
NewPrecomputeTable(base, modular, tableSize) ==
    IF tableSize <= 0 \/ base <= 0 \/ modular <= 0 \/ base = 1 THEN NoTable("nil")
    ELSE Bind(montgomerySetup(Bits(base), Bits(modular)), LAMBDA s :
           IF s.panic THEN NoTable("panic")
           ELSE Bind(squareChain(padTo(s.power1, s.numWords), tableSize * W,
                                 Bits(modular), s.k0, s.numWords), LAMBDA flat :
                  [status |-> "ok", Base |-> base, Modulus |-> modular,
                   TableSize |-> tableSize,
                   table |-> [i \in 1..tableSize |->
                                [j \in 1..W |-> flat[(i-1) * W + j]]]]))

\* ------------------------------------------------------------ coordinators
\* What a call produced: status "returned" or "panic", the returned Ints
\* as digit vectors, and whether montgomerySetup was entered; status "result"
\* with the digit vectors a function of the kernel handed back.
CallResult(st, v, su) == [status |-> st, val |-> v, setup |-> su]

\* The Ints built from the engine results: norm() is called for its value,
\* which is dropped, and SetBits takes the digits.
toInts(z) == [i \in 1..Len(z) |-> SetBits(z[i])]

\* doubleExpNNMontgomery(x, y1, y2, m) on digit vectors.
doubleExpNNMontgomery(x, y1, y2, m) ==
    Bind(montgomerySetup(x, m), LAMBDA s :
      IF s.panic THEN CallResult("panic", <<>>, TRUE)
      ELSE
        Bind(gcw(y1, y2), LAMBDA g :
        Bind(multiMontgomery(m, s.power0, s.power1, s.k0, s.numWords, g), LAMBDA mm :
        Bind(<<montgomery(mm[1], mm[3], m, s.k0, s.numWords),
               montgomery(mm[2], mm[3], m, s.k0, s.numWords)>>, LAMBDA a :
        Bind([i \in 1..2 |->
                montgomery(a[i], padTo(<<1>>, s.numWords), m, s.k0, s.numWords)], LAMBDA c :
          CallResult("returned", toInts([i \in 1..2 |-> finalReduce(c[i], m)]), TRUE))))))

\* DoubleExp without the fallback for an even modulus.
DoubleExpNoParity(x, y1, y2, m) ==
    IF x <= 1 \/ m <= 0
    THEN CallResult("returned", defaultExp(x, m, <<y1, y2>>), FALSE)
    ELSE IF Len(y1) = 0 \/ Len(y2) = 0
    THEN CallResult("returned", defaultExp(x, m, <<y1, y2>>), FALSE)
    ELSE doubleExpNNMontgomery(Bits(x), y1, y2, Bits(m))

\* DoubleExp whose fallback for a trivial base leaves out x = 1.
DoubleExpBaseGuard(x, y1, y2, m) ==
    IF x < 1 \/ m <= 0
    THEN CallResult("returned", defaultExp(x, m, <<y1, y2>>), FALSE)
    ELSE IF Len(y1) = 0 \/ Len(y2) = 0
    THEN CallResult("returned", defaultExp(x, m, <<y1, y2>>), FALSE)
    ELSE IF m % 2 # 1
    THEN CallResult("returned", defaultExp(x, m, <<y1, y2>>), FALSE)
    ELSE doubleExpNNMontgomery(Bits(x), y1, y2, Bits(m))

\* DoubleExp(x, y1, y2, m) for x >= 0, m > 0 and exponents >= 0 given by
\* their digits.
DoubleExp(x, y1, y2, m) ==
    IF x <= 1 \/ m <= 0
    THEN CallResult("returned", defaultExp(x, m, <<y1, y2>>), FALSE)
    ELSE IF Len(y1) = 0 \/ Len(y2) = 0
    THEN CallResult("returned", defaultExp(x, m, <<y1, y2>>), FALSE)
    ELSE IF m % 2 # 1
    THEN CallResult("returned", defaultExp(x, m, <<y1, y2>>), FALSE)
    ELSE doubleExpNNMontgomery(Bits(x), y1, y2, Bits(m))

\* fourfoldExpNNMontgomery(x, m, y) on digit vectors.
fourfoldExpNNMontgomery(x, m, y) ==
    Bind(montgomerySetup(x, m), LAMBDA s :
      IF s.panic THEN CallResult("panic", <<>>, TRUE)
      ELSE
        Bind(fourfoldDecompose(y), LAMBDA yList :
        Bind(multiMontgomery(m, s.power0, s.power1, s.k0, s.numWords, yList), LAMBDA z :
          CallResult("returned",
                     toInts([k \in 1..4 |-> assembleOutput(z, k, m, s.k0, s.numWords)]),
                     TRUE))))

\* FourfoldExp(x, m, yList) for four exponents.
FourfoldExp(x, m, yList) ==
    IF x <= 1 \/ m <= 0
    THEN CallResult("returned", defaultExp(x, m, yList), FALSE)
    ELSE IF \E i \in 1..4 : Len(yList[i]) = 0
    THEN CallResult("returned", defaultExp(x, m, yList), FALSE)
    ELSE IF m % 2 # 1
    THEN CallResult("returned", defaultExp(x, m, yList), FALSE)
    ELSE fourfoldExpNNMontgomery(Bits(x), Bits(m), yList)

\* defaultExp4: the fallback of the precomputed variants for x <= 1, one
\* reference exponentiation per exponent.
defaultExp4(x, m, y4) == defaultExp(x, m, y4)

\* The table was built for another base or modulus.
tableMismatch(x, m, preTable) == preTable.Base # x \/ preTable.Modulus # m

\* The checks of FourfoldExpPrecomputed and FourfoldExpPrecomputedParallel
\* in their order: "default" (x <= 1), "panic", or "run".
precomputedEntry(x, m, y4, preTable) ==
    IF x <= 1 THEN "default"
    ELSE IF m <= 0 THEN "panic"
    ELSE IF \E i \in 1..4 : Len(y4[i]) = 0 THEN "panic"
    ELSE IF m % 2 # 1 THEN "panic"
    ELSE IF tableMismatch(x, m, preTable) THEN "panic"
    ELSE "run"

\* fourfoldExpNNMontgomeryPrecomputed(x, m, y4, preTable) on digit vectors.
fourfoldExpNNMontgomeryPrecomputed(x, m, y4, preTable) ==
    Bind(montgomerySetup(x, m), LAMBDA s :
      IF s.panic THEN CallResult("panic", <<>>, TRUE)
      ELSE
        Bind(fourfoldDecompose(y4), LAMBDA yList :
          IF ~tableCovers(preTable.table, yList) THEN CallResult("panic", <<>>, TRUE)
          ELSE
            Bind(multiMontgomeryPrecomputed(m, s.power0, s.k0, s.numWords, yList,
                                            preTable.table), LAMBDA z :
              CallResult("returned",
                         toInts([k \in 1..4 |-> assembleOutput(z, k, m, s.k0, s.numWords)]),
                         TRUE))))

\* FourfoldExpPrecomputed(x, m, y4, preTable).
FourfoldExpPrecomputed(x, m, y4, preTable) ==
    Bind(precomputedEntry(x, m, y4, preTable), LAMBDA e :
      IF e = "default" THEN CallResult("returned", defaultExp4(x, m, y4), FALSE)
      ELSE IF e = "panic" THEN CallResult("panic", <<>>, FALSE)
      ELSE fourfoldExpNNMontgomeryPrecomputed(Bits(x), Bits(m), y4, preTable))

\* The exponent lists of the four engine tasks of the parallel variant.
engineTask(yList, i) ==
    IF i = 1 THEN SubSeq(yList, 1, 4)
    ELSE IF i = 2 THEN SubSeq(yList, 5, 8)
    ELSE IF i = 3 THEN SubSeq(yList, 9, 12)
    ELSE SubSeq(yList, 13, 15)

\* The checks of ExpParallel in their order: "panic" for a table that does
\* not match, "default" for the reference fallback, or "run".
expParallelEntry(x, y, m, preTable) ==
    IF preTable.status # "ok" THEN "panic"
    ELSE IF preTable.Base # x THEN "panic"
    ELSE IF preTable.Modulus # m THEN "panic"
    ELSE IF x <= 1 \/ Len(y) = 0 \/ m <= 0 \/ m % 2 # 1 THEN "default"
    ELSE "run"

\* numRoutine as ExpParallel uses it.
effectiveRoutines(n) == IF n <= 0 THEN 1 ELSE n

\* wordChunkSize as ExpParallel uses it.
effectiveChunk(c) == IF c <= 0 THEN defaultWordChunkSize ELSE c

\* The number of partial products the folding routine waits for.
expectedOutputs(lenY, chunk) ==
    (lenY \div chunk) + (IF lenY % chunk # 0 THEN 1 ELSE 0)

\* The step of the loop that pushes the chunks of y.
pushStride == defaultWordChunkSize

\* Capacity of inputChan.
inputCap(n) == n * 4

RECURSIVE scanChunk(_, _, _, _, _, _, _, _)
\* The worker's scan of the bit positions p .. last-1 of y.
scanChunk(ret, p, last, y, m, k0, numWords, table) ==
    IF p >= last THEN ret
    ELSE IF Bit(y[(p \div W) + 1], p % W) = 1
    THEN Bind(montgomery(ret, tableEntry(table, p \div W, p % W), m, k0, numWords),
              LAMBDA r : scanChunk(r, p+1, last, y, m, k0, numWords, table))
    ELSE scanChunk(ret, p+1, last, y, m, k0, numWords, table)

\* The worker's processing of the pivot l: digits l .. r-1 of y.
workerChunk(ret, l, wordChunk, y, m, k0, numWords, table) ==
    scanChunk(ret, W * l, W * Min2(l + wordChunk, Len(y)), y, m, k0, numWords, table)


\* ---------------------------------------------------------------- buffers
\* cap of nat(nil).make(n).
makeCap(n) == IF n = 1 THEN 1 ELSE n + 4

\* A buffer: the routine that made it, its number there, its capacity.
Buf(owner, serial, cap) == [id |-> <<owner, serial>>, cap |-> cap]

\* The buffer of the modulus m the coordinators hand on.
ModulusBuf == <<0, 0>>

\* The buffer of the table entry at position p = W*i + j.
TableBuf(p) == <<0, p + 1>>

\* The buffers of the table entries at positions 0 .. cnt-1.
TableBufs(cnt) == { TableBuf(p) : p \in 0..(cnt - 1) }

\* The buffers of routine r after its makes: K results z[k] of n digits,
\* squaredPower if the routine has one, temp; it passes the modulus md and
\* reads the buffers keep, which are not its own.
routineBufs(r, K, withSquare, n, md, keep) ==
    [z     |-> [k \in 1..K |-> Buf(r, k, makeCap(n))],
     sq    |-> IF withSquare THEN <<Buf(r, K + 1, makeCap(n))>> ELSE <<>>,
     temp  |-> Buf(r, K + 2, makeCap(n)),
     m     |-> md,
     next  |-> K + 3,
     calls |-> <<>>,
     keep  |-> keep]

\* z = z.make(n * 2) in nat.montgomery: temp's buffer when it has the
\* capacity, a new one if not.
montTarget(b, r, n) == IF 2 * n <= b.temp.cap THEN b.temp ELSE Buf(r, b.next, 2 * n + 4)

\* temp = temp.montgomery(live, y, m, k0, n) with the result kept in live
\* and in temp alike.
mulNoSwap(b, r, k, y, n) ==
    LET out  == montTarget(b, r, n)
        live == IF k = 0 THEN b.sq[1] ELSE b.z[k]
    IN  [b EXCEPT !.z = IF k = 0 THEN @ ELSE [@ EXCEPT ![k] = out],
                  !.sq = IF k = 0 THEN <<out>> ELSE @,
                  !.temp = out,
                  !.next = IF out = b.temp THEN @ ELSE @ + 1,
                  !.calls = Append(@, [out |-> out.id, x |-> live.id, y |-> y,
                                       m |-> b.m, scratch |-> out.id])]

\* temp = temp.montgomery(live, y, m, k0, n); live, temp = temp, live, where
\* live is z[k], or squaredPower for k = 0, and y the buffer of the second
\* operand.
mulSwap(b, r, k, y, n) ==
    LET out  == montTarget(b, r, n)
        live == IF k = 0 THEN b.sq[1] ELSE b.z[k]
    IN  [b EXCEPT !.z = IF k = 0 THEN @ ELSE [@ EXCEPT ![k] = out],
                  !.sq = IF k = 0 THEN <<out>> ELSE @,
                  !.temp = live,
                  !.next = IF out = b.temp THEN @ ELSE @ + 1,
                  !.calls = Append(@, [out |-> out.id, x |-> live.id, y |-> y,
                                       m |-> b.m, scratch |-> live.id])]

RECURSIVE bufMultiplies(_, _, _, _, _, _, _)
\* The loop over k at bit position p: z[k] is multiplied by the buffer y when
\* exponent k has the bit.
bufMultiplies(b, r, k, p, batch, y, n) ==
    IF k > Len(batch) THEN b
    ELSE bufMultiplies(IF bitSet(batch[k], p \div W, p % W) THEN mulSwap(b, r, k, y, n) ELSE b,
                       r, k + 1, p, batch, y, n)

\* One pass of the loop over j of multiMontgomery, on buffers.
bufLadderStep(b, r, p, batch, n) ==
    Bind(bufMultiplies([b EXCEPT !.calls = <<>>], r, 1, p, batch, b.sq[1].id, n),
         LAMBDA b1 : mulSwap(b1, r, 0, b1.sq[1].id, n))

RECURSIVE bufTableLoop(_, _, _, _, _, _)
\* The table-driven loops from bit position p to last-1, on buffers.
bufTableLoop(b, r, p, last, batch, n) ==
    IF p >= last THEN b
    ELSE bufTableLoop(bufMultiplies(b, r, 1, p, batch, TableBuf(p), n), r, p + 1, last,
                      batch, n)

RECURSIVE bufSquares(_, _, _, _)
\* The fill loop of NewPrecomputeTable, on buffers: cnt squarings.
bufSquares(b, r, cnt, n) ==
    IF cnt = 0 THEN b ELSE bufSquares(mulSwap(b, r, 0, b.sq[1].id, n), r, cnt - 1, n)

RECURSIVE bufProducts(_, _, _, _)
\* The loop over set of assembleAndConvert, on buffers.
bufProducts(b, r, set, n) ==
    IF Len(set) = 0 THEN b ELSE bufProducts(mulSwap(b, r, 1, Head(set), n), r, Tail(set), n)

\* assembleAndConvert(prod, set, mm, k0, n) on buffers: temp, the copy m of
\* mm, the products, one, the conversion.
bufAssemble(r, prod, set, n) ==
    Bind(bufProducts([z     |-> <<prod>>,
                      sq    |-> <<>>,
                      temp  |-> Buf(r, 1, makeCap(n)),
                      m     |-> <<r, 2>>,
                      next  |-> 4,
                      calls |-> <<>>,
                      keep  |-> { set[i] : i \in 1..Len(set) }], r, set, n),
         LAMBDA b : mulSwap(b, r, 1, <<r, 3>>, n))

\* ------------------------------------------------------------ the program
VARIABLES
    op,             \* the exported call that is made
    x, m,           \* base and modulus of the call
    ys,             \* the exponents of the call, as digit vectors
    tbl,            \* the precompute table handed to the call, or built by it
    tableSize,      \* NewPrecomputeTable: tableSize
    numWords,       \* nat.montgomery: n
    numRoutine,     \* ExpParallel: numRoutine
    wordChunkSize,  \* ExpParallel: wordChunkSize
    pc,             \* position of the calling routine
    res,            \* outcome of the call
    eng,            \* parallel fourfold: state of the four engine tasks
    engOut,         \* parallel fourfold: what each engine task sends on c4[i]
    zAll,           \* parallel fourfold: the engine results collected so far
    asm,            \* parallel fourfold: state of the four assemble tasks
    asmOut,         \* parallel fourfold: what each assemble task sends
    outs,           \* parallel fourfold: the outputs received so far
    inputChan,      \* ExpParallel: the queue of chunks
    outputChan,     \* ExpParallel: the channel of partial products
    wpc,            \* ExpParallel: position of each worker
    wacc,           \* ExpParallel: ret of each worker
    fpc,            \* ExpParallel: position of the folding routine
    fret,           \* ExpParallel: ret of the folding routine
    counter,        \* ExpParallel: counter of the folding routine
    postFolds,      \* ExpParallel: folds made after ret was sent on resChan
    pushIdx,        \* ExpParallel: i of the loop that pushes the chunks
    mret,           \* ExpParallel: the value received from resChan
    cancelled,      \* ExpParallel: cancel() was called
    hist,           \* the table and the digit vectors as first handed over,
                    \* and the previous call's outcome
    yList,          \* multiMontgomery: yList
    zList,          \* multiMontgomery: zList
    squaredPower,   \* multiMontgomery: squaredPower
    bitPos,         \* multiMontgomery: W*i + j of the loops over i and j
    squarings,      \* multiMontgomery: montgomery calls that square squaredPower
    multiplies,     \* multiMontgomery: montgomery calls that multiply into zList
    bufs            \* the buffers of each routine of the call that issues
                    \* montgomery calls, and the calls of its last step

callVars == <<op, x, m, ys, tbl, tableSize, numWords>>
fourVars == <<eng, engOut, zAll, asm, asmOut, outs>>
parVars == <<numRoutine, wordChunkSize, inputChan, outputChan, wpc, wacc, fpc, fret,
             counter, postFolds, pushIdx, mret, cancelled>>
ladderVars == <<yList, zList, squaredPower, bitPos, squarings, multiplies>>
vars == <<callVars, pc, res, fourVars, parVars, hist, ladderVars, bufs>>

\* No call outcome yet.
Pending == CallResult("pending", <<>>, FALSE)

\* The parallel fourfold variables before any task exists.
FourIdle ==
    /\ eng = <<>> /\ engOut = <<>> /\ zAll = <<>>
    /\ asm = <<>> /\ asmOut = <<>> /\ outs = <<>>

\* The multiMontgomery variables before the function is entered.
LadderIdle ==
    /\ yList = <<>> /\ zList = <<>> /\ squaredPower = <<>>
    /\ bitPos = 0 /\ squarings = 0 /\ multiplies = 0

\* The ExpParallel variables before any routine exists.
ParIdle ==
    /\ inputChan = <<>> /\ outputChan = <<>> /\ wpc = <<>> /\ wacc = <<>>
    /\ fpc = "none" /\ fret = <<>> /\ counter = 0 /\ postFolds = 0
    /\ pushIdx = 0 /\ mret = <<>> /\ cancelled = FALSE

\* Bases, moduli and exponents of the calls of DoubleExp.
XDouble == {0, 1, 2, 3, B+1, B+2, B*B+1}
MDouble == {1, 2, 3, B+1, B+3, 2*B, B*B-1}
YDouble == {0, 1, 3, B+1, B+2, B*B+3}

\* Bases, moduli and exponents of the fourfold calls.
XFour == {1, 2, 3, B+2}
MFour == {1, 3, 2*B, B*B-1}
YFour ==
    { <<Bits(a), Bits(b), Bits(c), Bits(d)>> :
        a \in {0, 3, 3*B+2, B*B+3}, b \in {0, 3, B+2}, c \in {1, 2*B+1}, d \in {3, B*B+3} }

\* The tables a caller may hold for a call with (x, m): built for it or for
\* another base or modulus, with few or enough rows.
TablesFor(bx, bm, sizes) ==
    { t \in { NewPrecomputeTable(tb, tm, T) :
                tb \in {bx, bx+1}, tm \in {bm, bm+2}, T \in sizes } : t.status = "ok" }

InitDoubleExp ==
    /\ op = "DoubleExp"
    /\ x \in XDouble /\ m \in MDouble
    /\ ys \in { <<Bits(a), Bits(b)>> : a \in YDouble, b \in YDouble }
    /\ tbl = NoTable("nil")
    /\ numRoutine = 0 /\ wordChunkSize = 0

InitFourfoldExp ==
    /\ op = "FourfoldExp"
    /\ x \in XFour /\ m \in MFour
    /\ ys \in YFour
    /\ tbl = NoTable("nil")
    /\ numRoutine = 0 /\ wordChunkSize = 0

InitFourfoldExpPrecomputed ==
    /\ op = "FourfoldExpPrecomputed"
    /\ x \in XFour /\ m \in MFour
    /\ ys \in YFour
    /\ tbl \in TablesFor(x, m, {1, 3})
    /\ numRoutine = 0 /\ wordChunkSize = 0

\* Calls of FourfoldExpPrecomputedParallel.
XMParallel == {<<1, 3>>, <<2, 3>>, <<3, 3>>, <<B+2, B*B-1>>, <<B+2, 2*B>>}

InitFourfoldExpPrecomputedParallel ==
    /\ op = "FourfoldExpPrecomputedParallel"
    /\ \E xm \in XMParallel : x = xm[1] /\ m = xm[2]
    /\ ys \in { <<Bits(a), Bits(b), Bits(c), Bits(d)>> :
                  a \in {3, B+2}, b \in {1, B+2}, c \in {0, 3, B+1}, d \in {2, B+3} }
    /\ tbl \in TablesFor(x, m, {1, 2})
    /\ numRoutine = 0 /\ wordChunkSize = 0

\* Exponents of the calls of ExpParallel: none, one digit, two digits, more
\* digits than one chunk, more digits than two chunks.
YParallel == { <<>>, <<3>>, <<2, 1>>, <<1, 2, 0, 3, 1>>, <<1, 0, 2, 0, 3, 0, 1, 0, 1>> }

\* Bases, moduli and table sizes of the calls of NewPrecomputeTable.
XTable == {0 - 2, 0, 1, 2, 3, B+2, B*B-2, B*B+1}
MTable == {0 - 3, 0, 1, 2, 3, B+1, B+3, 2*B, B*B-1}
TableSizes == {0 - 1, 0, 1, 2}

InitNewPrecomputeTable ==
    /\ op = "NewPrecomputeTable"
    /\ x \in XTable /\ m \in MTable
    /\ ys = <<>>
    /\ tbl = NoTable("none")
    /\ numRoutine = 0 /\ wordChunkSize = 0

\* Digit vectors handed to gcw, threefoldGCW and fourfoldGCW: of 0 to 3
\* digits, with and without common bits, one with a zero top digit.
GcwVectors ==
    { <<>>, <<B-1>>, <<1>>, <<B-2, B-1>>, <<B-1, 1>>, <<2, 0>>, <<1, B-1, 2>>,
      <<B-1, B-1, B-1>> }

InitGcw ==
    /\ \/ op = "gcw" /\ ys \in [1..2 -> GcwVectors]
       \/ op = "threefoldGCW" /\ ys \in [1..3 -> GcwVectors]
       \/ op = "fourfoldGCW" /\ ys \in [1..4 -> GcwVectors]
    /\ x = 0 /\ m = 0
    /\ tbl = NoTable("nil")
    /\ numRoutine = 0 /\ wordChunkSize = 0

\* All vectors of w digits.
DigitVectors(w) == [1..w -> 0..(B-1)]

\* The odd moduli of w digits handed to nat.montgomery.
MontModuli(w) ==
    { md \in { Bits(v) : v \in {1, 3, B-1, B+1, B+3, 2*B+1, 2*B+3, B*B-3, B*B-1,
                                B*B*B-B-1, B*B*B-1} } : Len(md) = w }

\* Operands of three digits.
MontOperands3 == { <<B-1, B-1, B-1>>, <<1, 2, 3>>, <<B-1, 0, 1>>, <<0, 0, 0>> }

\* Operands and n of calls of nat.montgomery in which some length is not n.
MontMismatched ==
    { <<<<1>>, <<1, 2>>, <<1, 1>>, 2>>,
      <<<<1, 2>>, <<3>>, <<1, 1>>, 2>>,
      <<<<1, 2>>, <<1, 0>>, <<3>>, 2>>,
      <<<<1, 2>>, <<1, 0>>, <<3, 1>>, 1>>,
      <<<<1, 2, 0>>, <<1, 1, 0>>, <<3, 1>>, 2>>,
      <<<<>>, <<1>>, <<1>>, 1>> }

\* Calls of nat.montgomery(x, y, m, k, n) with ys = <<x, y, m>>, k the k0 of m:
\* every pair of operands of one and of two digits, some of three, and calls
\* with operands of other lengths than n.
InitMontgomery ==
    /\ op = "montgomery"
    /\ \/ \E w \in 1..2 :
             /\ ys \in { <<a, b, c>> : a \in DigitVectors(w), b \in DigitVectors(w),
                                       c \in MontModuli(w) }
             /\ numWords = w
       \/ /\ ys \in { <<a, b, c>> : a \in MontOperands3, b \in MontOperands3,
                                     c \in MontModuli(3) }
          /\ numWords = 3
       \/ \E c \in MontMismatched : ys = <<c[1], c[2], c[3]>> /\ numWords = c[4]
    /\ x = 0 /\ m = 0
    /\ tbl = NoTable("nil")
    /\ numRoutine = 0 /\ wordChunkSize = 0

\* Bases and moduli of the calls of multiMontgomery: power0 and power1 are
\* those montgomerySetup hands over for them.
XMLadder == { <<2, 3>>, <<3, 3>>, <<B+3, B+1>>, <<B+2, B*B-1>> }

\* Exponent batches of multiMontgomery: one to fifteen exponents of one to
\* three digits, of equal and of different lengths, with most-significant
\* zero digits, all zero, and as gcw and the fourfold decomposition leave them.
LadderBatches ==
    { << <<3>> >>,
      << <<1>>, <<2, 1>> >>,
      << <<0>>, <<0, 0>> >>,
      << <<2, 0>>, <<1, 3>>, <<0>> >>,
      << <<1, 0, 0>>, <<B-1, B-1>> >>,
      << <<B-1, B-1>>, <<B-1>>, <<1, 1, 1>> >>,
      gcw(<<3, 1>>, <<1, 3, 2>>),
      fourfoldDecompose(<< <<3, 1>>, <<1, 3>>, <<2, 2, 1>>, <<B-1>> >>) }

InitMultiMontgomery ==
    /\ op = "multiMontgomery"
    /\ \E xm \in XMLadder : x = xm[1] /\ m = xm[2]
    /\ ys \in LadderBatches
    /\ tbl = NoTable("nil")
    /\ numRoutine = 0 /\ wordChunkSize = 0

InitExpParallel ==
    /\ op = "ExpParallel"
    /\ \E xm \in XMParallel : x = xm[1] /\ m = xm[2]
    /\ ys \in { <<y>> : y \in YParallel }
    /\ tbl \in TablesFor(x, m, {IF Len(ys[1]) = 0 THEN 1 ELSE Len(ys[1])})
    /\ numRoutine \in 0..MaxRoutines
    /\ wordChunkSize \in {0, 2, defaultWordChunkSize}

Init ==
    /\ \/ InitDoubleExp
       \/ InitFourfoldExp
       \/ InitFourfoldExpPrecomputed
       \/ InitFourfoldExpPrecomputedParallel
       \/ InitExpParallel
       \/ InitNewPrecomputeTable
       \/ InitGcw
       \/ InitMontgomery
       \/ InitMultiMontgomery
    /\ tableSize \in IF op = "NewPrecomputeTable" THEN TableSizes ELSE {0}
    /\ IF op = "montgomery" THEN numWords > 0 ELSE numWords = 0
    /\ pc = "call" /\ res = Pending
    /\ FourIdle /\ ParIdle /\ LadderIdle /\ bufs = <<>>
    /\ hist = [tbl |-> tbl, ys |-> ys, res |-> Pending]

\* The digits of the caller's exponents after a call of an exported
\* function: what the decomposition has left in them when the call got as far
\* as the decomposition, and else what they were.
callerDigits(decomposed, copied, y) ==
    IF ~decomposed THEN y
    ELSE IF Len(y) = 2 THEN SubSeq(storeDouble(y).h, 1, 2)
    ELSE IF copied
         THEN Bind(storeNewNat(y), LAMBDA c : SubSeq(storeFourfold(c.h, c.out).h, 1, 4))
    ELSE SubSeq(storeFourfold(y, <<1, 2, 3, 4>>).h, 1, 4)

\* The setup of a call that got past the entry checks did not abort.
setupPassed(result) == result.setup /\ ~montgomerySetup(Bits(x), Bits(m)).panic

\* A call of DoubleExp, from entry to return.
CallDoubleExp ==
    /\ op = "DoubleExp" /\ pc = "call"
    /\ res' = DoubleExp(x, ys[1], ys[2], m)
    /\ ys' = callerDigits(setupPassed(res'), FALSE, ys)
    /\ pc' = "done"
    /\ UNCHANGED <<op, x, m, tbl, tableSize, numWords, hist, ladderVars, bufs, fourVars,
                   parVars>>

\* A call of FourfoldExp, from entry to return.
CallFourfoldExp ==
    /\ op = "FourfoldExp" /\ pc = "call"
    /\ res' = FourfoldExp(x, m, ys)
    /\ ys' = callerDigits(setupPassed(res'), FALSE, ys)
    /\ pc' = "done"
    /\ UNCHANGED <<op, x, m, tbl, tableSize, numWords, hist, ladderVars, bufs, fourVars,
                   parVars>>

\* A call of FourfoldExpPrecomputed, from entry to return.
CallFourfoldExpPrecomputed ==
    /\ op = "FourfoldExpPrecomputed" /\ pc = "call"
    /\ res' = FourfoldExpPrecomputed(x, m, ys, tbl)
    /\ ys' = callerDigits(setupPassed(res'), TRUE, ys)
    /\ pc' = "done"
    /\ UNCHANGED <<op, x, m, tbl, tableSize, numWords, hist, ladderVars, bufs, fourVars,
                   parVars>>

\* A call of NewPrecomputeTable, from entry to return: the caller holds the
\* table it returns, or nil.
CallNewPrecomputeTable ==
    /\ op = "NewPrecomputeTable" /\ pc = "call"
    /\ tbl' = NewPrecomputeTable(x, m, tableSize)
    /\ res' = CallResult(IF tbl'.status = "panic" THEN "panic" ELSE "returned", <<>>,
                         tbl'.status # "nil")
    /\ pc' = "done"
    /\ bufs' = IF tbl'.status = "ok"
               THEN <<bufSquares([routineBufs(1, 0, TRUE, Len(Bits(m)), ModulusBuf,
                                              { <<1, 3 + p>> : p \in 0..(tableSize * W - 1) })
                                    EXCEPT !.next = 3 + tableSize * W],
                                 1, tableSize * W, Len(Bits(m)))>>
               ELSE <<>>
    /\ UNCHANGED <<op, x, m, ys, tableSize, numWords, hist, ladderVars, fourVars, parVars>>

\* A call of z.montgomery(x, y, m, k, n): it panics on a length that is not
\* n, and else hands back z[:n].
CallMontgomery ==
    /\ op = "montgomery" /\ pc = "call"
    /\ res' = IF montgomeryPanics(ys[1], ys[2], ys[3], numWords)
               THEN CallResult("panic", <<>>, FALSE)
               ELSE CallResult("result",
                               <<montgomery(ys[1], ys[2], ys[3], k0Of(ys[3][1]), numWords)>>,
                               FALSE)
    /\ pc' = "done"
    /\ UNCHANGED <<callVars, hist, ladderVars, bufs, fourVars, parVars>>

\* A call of gcw(a, b): it writes aExtra, bExtra and commonWords, which it
\* has made, and hands them back.
CallGcw ==
    /\ op = "gcw" /\ pc = "call"
    /\ res' = CallResult("result", gcw(ys[1], ys[2]), FALSE)
    /\ pc' = "done"
    /\ UNCHANGED <<callVars, hist, ladderVars, bufs, fourVars, parVars>>

\* A call of fourfoldGCW(input): it writes the five outputs, which it has
\* made, and hands them back.
CallFourfoldGCW ==
    /\ op = "fourfoldGCW" /\ pc = "call"
    /\ res' = CallResult("result", fourfoldGCW(ys), FALSE)
    /\ pc' = "done"
    /\ UNCHANGED <<callVars, hist, ladderVars, bufs, fourVars, parVars>>

\* A call of threefoldGCW(input): it writes the digits of the three inputs
\* and hands back the common words.
CallThreefoldGCW ==
    /\ op = "threefoldGCW" /\ pc = "call"
    /\ LET r == threefoldGCW(ys) IN
       /\ ys' = SubSeq(r, 1, 3)
       /\ res' = CallResult("result", <<r[4]>>, FALSE)
    /\ pc' = "done"
    /\ UNCHANGED <<op, x, m, tbl, tableSize, numWords, hist, ladderVars, bufs, fourVars, parVars>>

\* ------------------------------------------- FourfoldExpPrecomputedParallel
\* montgomerySetup of the running call.
callSetup == montgomerySetup(Bits(x), Bits(m))

\* The fifteen decomposed exponents of the running call.
callParts == fourfoldDecompose(ys)

\* The channel c4[i] the coordinator receives from after n receives.
recvFrom(n) == n + 1

\* A receive from outputs[k] that does not wait for the task's send.
outputReadyAlways(k) == TRUE

\* The receive from outputs[k] can complete: its assemble task has sent.
outputReady(k) == asm[k] = "send"

\* The number of engine results received.
engReceived == Cardinality({ i \in DOMAIN eng : eng[i] = "done" })

\* A routine that has made no buffer yet.
NoBufs == [z |-> <<>>, sq |-> <<>>, temp |-> Buf(0, 0, 0), m |-> ModulusBuf, next |-> 0,
           calls |-> <<>>, keep |-> {}]

\* The buffers of z after the coordinator appended the results of the four
\* engine tasks.
resultBufs(b) == b[1].z \o b[2].z \o b[3].z \o b[4].z

\* Entry of FourfoldExpPrecomputedParallel up to the start of the four
\* engine tasks.
CallFourfoldExpPrecomputedParallel ==
    /\ op = "FourfoldExpPrecomputedParallel" /\ pc = "call"
    /\ LET e == precomputedEntry(x, m, ys, tbl) IN
       IF e = "default"
       THEN /\ res' = CallResult("returned", defaultExp4(x, m, ys), FALSE)
            /\ pc' = "done"
            /\ UNCHANGED <<eng, engOut, bufs, ys>>
       ELSE IF e = "panic"
       THEN /\ res' = CallResult("panic", <<>>, FALSE)
            /\ pc' = "done"
            /\ UNCHANGED <<eng, engOut, bufs, ys>>
       ELSE IF callSetup.panic
       THEN /\ res' = CallResult("panic", <<>>, TRUE)
            /\ pc' = "done"
            /\ UNCHANGED <<eng, engOut, bufs, ys>>
       ELSE /\ eng' = [i \in 1..4 |-> "run"]
            /\ engOut' = [i \in 1..4 |-> <<>>]
            /\ bufs' = [i \in 1..4 |->
                          routineBufs(i, Len(engineTask(callParts, i)), FALSE,
                                      callSetup.numWords, ModulusBuf,
                                      TableBufs(W * Len(tbl.table)))]
            /\ ys' = callerDigits(TRUE, TRUE, ys)
            /\ pc' = "collect"
            /\ UNCHANGED res
    /\ UNCHANGED <<op, x, m, tbl, tableSize, numWords, hist, ladderVars, zAll, asm, asmOut,
                   outs, parVars>>

\* multiMontgomeryPrecomputedChan, task i: computes its results and offers
\* them on c4[i]; reading a missing table row aborts the program.
EngineRun(i) ==
    /\ pc = "collect" /\ eng[i] = "run"
    /\ IF ~tableCovers(tbl.table, engineTask(callParts, i))
       THEN /\ res' = CallResult("panic", <<>>, TRUE)
            /\ pc' = "done"
            /\ UNCHANGED <<eng, engOut, bufs>>
       ELSE /\ engOut' = [engOut EXCEPT ![i] =
                 multiMontgomeryPrecomputed(Bits(m), callSetup.power0, callSetup.k0,
                     callSetup.numWords, engineTask(callParts, i), tbl.table)]
            /\ bufs' = [bufs EXCEPT ![i] =
                 bufTableLoop(@, i, 0, W * maxWordLenOf(engineTask(callParts, i)),
                              engineTask(callParts, i), callSetup.numWords)]
            /\ eng' = [eng EXCEPT ![i] = "send"]
            /\ UNCHANGED <<pc, res>>
    /\ UNCHANGED <<callVars, hist, ladderVars, zAll, asm, asmOut, outs, parVars>>

\* The coordinator receives the next engine result and appends it to z; after
\* the fourth it starts the four assemble tasks.
CoordRecvEngine ==
    /\ pc = "collect"
    /\ LET i == recvFrom(engReceived) IN
       /\ eng[i] = "send"
       /\ zAll' = zAll \o engOut[i]
       /\ eng' = [eng EXCEPT ![i] = "done"]
    /\ IF engReceived = 3
       THEN /\ asm' = [k \in 1..4 |-> "run"]
            /\ asmOut' = [k \in 1..4 |-> <<>>]
            /\ pc' = "outputs"
       ELSE UNCHANGED <<asm, asmOut, pc>>
    /\ UNCHANGED <<callVars, hist, ladderVars, bufs, res, engOut, outs, parVars>>

\* assembleAndConvertChan, task k: computes its output and offers it on
\* outputs[k].
AssembleRun(k) ==
    /\ pc = "outputs" /\ asm[k] = "run"
    /\ asmOut' = [asmOut EXCEPT ![k] =
           assembleOutput(zAll, k, Bits(m), callSetup.k0, callSetup.numWords)]
    /\ bufs' = [r \in 1..8 |->
                   IF r = 4 + k
                   THEN bufAssemble(r, resultBufs(bufs)[k],
                            [i \in 1..7 |-> resultBufs(bufs)[assembleSet(k)[i] + 1].id],
                            callSetup.numWords)
                   ELSE IF r \in DOMAIN bufs THEN bufs[r] ELSE NoBufs]
    /\ asm' = [asm EXCEPT ![k] = "send"]
    /\ UNCHANGED <<callVars, hist, ladderVars, pc, res, eng, engOut, zAll, outs, parVars>>

\* The coordinator receives the next output and sets it; after the fourth it
\* returns.
CoordRecvOutput ==
    /\ pc = "outputs"
    /\ LET k == Len(outs) + 1 IN
       /\ outputReady(k)
       /\ outs' = Append(outs, SetBits(asmOut[k]))
       /\ asm' = [asm EXCEPT ![k] = "done"]
       /\ IF k = 4
          THEN /\ pc' = "done"
               /\ res' = CallResult("returned", outs', TRUE)
          ELSE UNCHANGED <<pc, res>>
    /\ UNCHANGED <<callVars, hist, ladderVars, bufs, eng, engOut, zAll, asmOut, parVars>>

\* ----------------------------------------------------------- multiMontgomery
\* multiMontgomery(m, power0, power1, k0, numWords, ys) up to the loops:
\* zList filled with power0, squaredPower a copy of power1.
CallMultiMontgomery ==
    /\ op = "multiMontgomery" /\ pc = "call"
    /\ yList' = ys
    /\ zList' = [k \in 1..Len(ys) |-> padTo(callSetup.power0, callSetup.numWords)]
    /\ squaredPower' = padTo(callSetup.power1, callSetup.numWords)
    /\ bitPos' = 0 /\ squarings' = 0 /\ multiplies' = 0
    /\ bufs' = <<routineBufs(1, Len(ys), TRUE, callSetup.numWords, ModulusBuf, {})>>
    /\ pc' = "ladder"
    /\ UNCHANGED <<callVars, hist, res, fourVars, parVars>>

\* One pass of the loop over j: every zList[k] whose exponent has bit j of
\* digit i is multiplied by squaredPower, then squaredPower is squared.
LadderStep ==
    /\ pc = "ladder" /\ bitPos < W * maxWordLenOf(yList)
    /\ zList' = [k \in 1..Len(yList) |->
                   IF bitSet(yList[k], bitPos \div W, bitPos % W)
                   THEN montgomery(zList[k], squaredPower, Bits(m), callSetup.k0,
                                   callSetup.numWords)
                   ELSE zList[k]]
    /\ multiplies' = multiplies
           + Cardinality({k \in 1..Len(yList) : bitSet(yList[k], bitPos \div W, bitPos % W)})
    /\ squaredPower' = squareStep(squaredPower, Bits(m), callSetup.k0, callSetup.numWords)
    /\ squarings' = squarings + 1
    /\ bufs' = <<bufLadderStep(bufs[1], 1, bitPos, yList, callSetup.numWords)>>
    /\ bitPos' = bitPos + 1
    /\ UNCHANGED <<callVars, hist, pc, res, fourVars, parVars, yList>>

\* The loops of multiMontgomery are over: it returns zList.
LadderReturn ==
    /\ pc = "ladder" /\ bitPos >= W * maxWordLenOf(yList)
    /\ res' = CallResult("result", zList, FALSE)
    /\ pc' = "done"
    /\ UNCHANGED <<callVars, hist, fourVars, parVars, ladderVars, bufs>>

\* -------------------------------------------------------------- ExpParallel
\* The exponent of the running call of ExpParallel.
callY == ys[1]

\* Entry of ExpParallel up to the start of the workers and of the folding
\* routine.
CallExpParallel ==
    /\ op = "ExpParallel" /\ pc = "call"
    /\ LET e == expParallelEntry(x, callY, m, tbl) IN
       IF e = "panic"
       THEN /\ res' = CallResult("panic", <<>>, FALSE)
            /\ pc' = "done"
            /\ UNCHANGED <<numRoutine, wordChunkSize, wpc, wacc, fpc, fret, counter, bufs>>
       ELSE IF e = "default"
       THEN /\ res' = CallResult("returned", <<Bits(RefExp(x, callY, m))>>, FALSE)
            /\ pc' = "done"
            /\ UNCHANGED <<numRoutine, wordChunkSize, wpc, wacc, fpc, fret, counter, bufs>>
       ELSE IF callSetup.panic
       THEN /\ res' = CallResult("panic", <<>>, TRUE)
            /\ pc' = "done"
            /\ UNCHANGED <<numRoutine, wordChunkSize, wpc, wacc, fpc, fret, counter, bufs>>
       ELSE /\ numRoutine' = effectiveRoutines(numRoutine)
            /\ wordChunkSize' = effectiveChunk(wordChunkSize)
            /\ wpc' = [w \in 1..numRoutine' |-> "select"]
            /\ wacc' = [w \in 1..numRoutine' |-> callSetup.power0]
            /\ bufs' = [w \in 1..numRoutine' |->
                          routineBufs(w, 1, FALSE, callSetup.numWords, ModulusBuf,
                                      TableBufs(W * Len(tbl.table)))]
            /\ fpc' = "recv"
            /\ fret' = callSetup.power0
            /\ counter' = expectedOutputs(Len(callY), wordChunkSize')
            /\ pc' = "push"
            /\ UNCHANGED res
    /\ UNCHANGED <<callVars, hist, ladderVars, fourVars, inputChan, outputChan, postFolds, pushIdx,
                   mret, cancelled>>

\* The coordinator pushes the next chunk; after the last it waits on resChan.
MainPush ==
    /\ pc = "push"
    /\ Len(inputChan) < inputCap(numRoutine)
    /\ inputChan' = Append(inputChan,
           [pivot |-> pushIdx,
            wordLen |-> Min2(pushStride, Len(callY) - pushIdx)])
    /\ pushIdx' = pushIdx + pushStride
    /\ pc' = IF pushIdx' < Len(callY) THEN "push" ELSE "wait"
    /\ UNCHANGED <<callVars, hist, ladderVars, bufs, res, fourVars, numRoutine, wordChunkSize, outputChan,
                   wpc, wacc, fpc, fret, counter, postFolds, mret, cancelled>>

\* Worker w, select, case <-ctx.Done(): it returns without emitting.
WorkerCancel(w) ==
    /\ w \in DOMAIN wpc
    /\ wpc[w] = "select" /\ cancelled
    /\ wpc' = [wpc EXCEPT ![w] = "done"]
    /\ UNCHANGED <<callVars, hist, ladderVars, bufs, pc, res, fourVars, numRoutine, wordChunkSize, inputChan,
                   outputChan, wacc, fpc, fret, counter, postFolds, pushIdx, mret,
                   cancelled>>

\* Worker w, select, case l := <-pivots: it multiplies the chunk into ret.
WorkerTake(w) ==
    /\ w \in DOMAIN wpc
    /\ wpc[w] = "select" /\ Len(inputChan) > 0
    /\ inputChan' = Tail(inputChan)
    /\ bufs' = [bufs EXCEPT ![w] =
           bufTableLoop([@ EXCEPT !.calls = <<>>], w, W * Head(inputChan).pivot,
                        W * Min2(Head(inputChan).pivot + wordChunkSize, Len(callY)),
                        <<callY>>, callSetup.numWords)]
    /\ wacc' = [wacc EXCEPT ![w] =
           workerChunk(wacc[w], Head(inputChan).pivot, wordChunkSize, callY, Bits(m),
                       callSetup.k0, callSetup.numWords, tbl.table)]
    /\ UNCHANGED <<callVars, hist, ladderVars, pc, res, fourVars, numRoutine, wordChunkSize, outputChan,
                   wpc, fpc, fret, counter, postFolds, pushIdx, mret, cancelled>>

\* Worker w, select, default: nothing to receive and not cancelled.
WorkerDefault(w) ==
    /\ w \in DOMAIN wpc
    /\ wpc[w] = "select" /\ ~cancelled /\ Len(inputChan) = 0
    /\ wpc' = [wpc EXCEPT ![w] = "check"]
    /\ UNCHANGED <<callVars, hist, ladderVars, bufs, pc, res, fourVars, numRoutine, wordChunkSize, inputChan,
                   outputChan, wacc, fpc, fret, counter, postFolds, pushIdx, mret,
                   cancelled>>

\* A worker that emits ret and goes back to the select.
WorkerEmitAgain(w) ==
    /\ w \in DOMAIN wpc
    /\ wpc[w] = "check" /\ Len(inputChan) = 0
    /\ Len(outputChan) < numRoutine
    /\ outputChan' = Append(outputChan, wacc[w])
    /\ wpc' = [wpc EXCEPT ![w] = "select"]
    /\ UNCHANGED <<callVars, hist, ladderVars, bufs, pc, res, fourVars, numRoutine, wordChunkSize, inputChan,
                   wacc, fpc, fret, counter, postFolds, pushIdx, mret, cancelled>>

\* Worker w, len(pivots) == 0: it emits ret and returns.
WorkerEmit(w) ==
    /\ w \in DOMAIN wpc
    /\ wpc[w] = "check" /\ Len(inputChan) = 0
    /\ Len(outputChan) < numRoutine
    /\ outputChan' = Append(outputChan, wacc[w])
    /\ wpc' = [wpc EXCEPT ![w] = "done"]
    /\ UNCHANGED <<callVars, hist, ladderVars, bufs, pc, res, fourVars, numRoutine, wordChunkSize, inputChan,
                   wacc, fpc, fret, counter, postFolds, pushIdx, mret, cancelled>>

\* Worker w, len(pivots) # 0: back to the select.
WorkerRetry(w) ==
    /\ w \in DOMAIN wpc
    /\ wpc[w] = "check" /\ Len(inputChan) > 0
    /\ wpc' = [wpc EXCEPT ![w] = "select"]
    /\ UNCHANGED <<callVars, hist, ladderVars, bufs, pc, res, fourVars, numRoutine, wordChunkSize, inputChan,
                   outputChan, wacc, fpc, fret, counter, postFolds, pushIdx, mret,
                   cancelled>>

\* The vectors of numWords digits: what a buffer can hold while the folding
\* routine writes it and the coordinator reads it.
AnyBuffer == [1..callSetup.numWords -> 0..(B-1)]

\* The folding routine receives a partial product and multiplies it into
\* ret; when counter reaches zero it offers ret on resChan.  After ret was
\* sent, every second fold writes the buffer the coordinator received.
FoldRecv ==
    /\ fpc = "recv" /\ Len(outputChan) > 0
    /\ outputChan' = Tail(outputChan)
    /\ fret' = montgomery(fret, Head(outputChan), Bits(m), callSetup.k0,
                          callSetup.numWords)
    /\ counter' = counter - 1
    /\ fpc' = IF counter' = 0 THEN "send" ELSE "recv"
    /\ postFolds' = IF postFolds = 0 THEN 0 ELSE postFolds + 1
    /\ IF postFolds > 0 /\ postFolds' % 2 = 1 /\ pc = "convert"
       THEN mret' \in AnyBuffer
       ELSE UNCHANGED mret
    /\ UNCHANGED <<callVars, hist, ladderVars, bufs, pc, res, fourVars, numRoutine, wordChunkSize, inputChan,
                   wpc, wacc, pushIdx, cancelled>>

\* The coordinator receives ret from resChan.
MainRecv ==
    /\ pc = "wait" /\ fpc = "send"
    /\ mret' = fret
    /\ fpc' = "recv"
    /\ postFolds' = 1
    /\ pc' = "convert"
    /\ UNCHANGED <<callVars, hist, ladderVars, bufs, res, fourVars, numRoutine, wordChunkSize, inputChan,
                   outputChan, wpc, wacc, fret, counter, pushIdx, cancelled>>

\* A return of the coordinator that leaves the context uncancelled.
MainFinishNoCancel ==
    /\ pc = "convert"
    /\ res' = CallResult("returned",
                  <<SetBits(finalReduce(
                      montgomery(mret, padTo(<<1>>, callSetup.numWords), Bits(m),
                                 callSetup.k0, callSetup.numWords), Bits(m)))>>, TRUE)
    /\ pc' = "done"
    /\ UNCHANGED <<callVars, hist, ladderVars, bufs, fourVars, numRoutine, wordChunkSize, inputChan,
                   outputChan, wpc, wacc, fpc, fret, counter, postFolds, pushIdx, mret,
                   cancelled>>

\* The coordinator converts out of Montgomery form, reduces, returns; the
\* deferred cancel() runs.
MainFinish ==
    /\ pc = "convert"
    /\ res' = CallResult("returned",
                  <<SetBits(finalReduce(
                      montgomery(mret, padTo(<<1>>, callSetup.numWords), Bits(m),
                                 callSetup.k0, callSetup.numWords), Bits(m)))>>, TRUE)
    /\ cancelled' = TRUE
    /\ pc' = "done"
    /\ UNCHANGED <<callVars, hist, ladderVars, bufs, fourVars, numRoutine, wordChunkSize, inputChan, outputChan,
                   wpc, wacc, fpc, fret, counter, postFolds, pushIdx, mret>>

\* The calls that are handed a precompute table.
TableCalls == {"FourfoldExpPrecomputed", "FourfoldExpPrecomputedParallel", "ExpParallel"}

\* The caller makes the same call again, with the same arguments and the same
\* table, once the call has ended; the routines a call leaves behind share no
\* channel with the next call.
CallAgain ==
    /\ op \in TableCalls /\ pc = "done" /\ hist.res = Pending
    /\ hist' = [hist EXCEPT !.res = res]
    /\ res' = Pending
    /\ pc' = "call"
    /\ eng' = <<>> /\ engOut' = <<>> /\ zAll' = <<>>
    /\ asm' = <<>> /\ asmOut' = <<>> /\ outs' = <<>>
    /\ inputChan' = <<>> /\ outputChan' = <<>> /\ wpc' = <<>> /\ wacc' = <<>>
    /\ fpc' = "none" /\ fret' = <<>> /\ counter' = 0 /\ postFolds' = 0
    /\ pushIdx' = 0 /\ mret' = <<>> /\ cancelled' = FALSE
    /\ bufs' = <<>>
    /\ UNCHANGED <<callVars, ladderVars, numRoutine, wordChunkSize>>

Next ==
    \/ CallDoubleExp
    \/ CallFourfoldExp
    \/ CallFourfoldExpPrecomputed
    \/ CallNewPrecomputeTable
    \/ CallMontgomery
    \/ CallMultiMontgomery
    \/ LadderStep
    \/ LadderReturn
    \/ CallGcw
    \/ CallFourfoldGCW
    \/ CallThreefoldGCW
    \/ CallFourfoldExpPrecomputedParallel
    \/ \E i \in 1..4 : EngineRun(i)
    \/ CoordRecvEngine
    \/ \E k \in 1..4 : AssembleRun(k)
    \/ CoordRecvOutput
    \/ CallExpParallel
    \/ MainPush
    \/ \E w \in 1..MaxRoutines : WorkerCancel(w)
    \/ \E w \in 1..MaxRoutines : WorkerTake(w)
    \/ \E w \in 1..MaxRoutines : WorkerDefault(w)
    \/ \E w \in 1..MaxRoutines : WorkerEmit(w)
    \/ \E w \in 1..MaxRoutines : WorkerRetry(w)
    \/ FoldRecv
    \/ MainRecv
    \/ MainFinish
    \/ CallAgain

Spec == Init /\ [][Next]_vars

\* ------------------------------------------------- ExpParallel, scheduled
\* The calls of ExpParallel alone.
InitParallel ==
    /\ InitExpParallel
    /\ tableSize = 0 /\ numWords = 0
    /\ pc = "call" /\ res = Pending
    /\ FourIdle /\ ParIdle /\ LadderIdle /\ bufs = <<>>
    /\ hist = [tbl |-> tbl, ys |-> ys, res |-> Pending]

\* The steps of one call of ExpParallel.
NextParallel ==
    \/ CallExpParallel
    \/ MainPush
    \/ \E w \in 1..MaxRoutines : WorkerCancel(w)
    \/ \E w \in 1..MaxRoutines : WorkerTake(w)
    \/ \E w \in 1..MaxRoutines : WorkerDefault(w)
    \/ \E w \in 1..MaxRoutines : WorkerEmit(w)
    \/ \E w \in 1..MaxRoutines : WorkerRetry(w)
    \/ FoldRecv
    \/ MainRecv
    \/ MainFinish

\* One call of ExpParallel under the Go scheduler: a worker that can send or
\* go back to its select is not left waiting forever, and a select whose
\* case <-ctx.Done() stays ready takes it in the end, whatever else is ready
\* (the choice among ready cases is uniformly random).
SpecParallel ==
    /\ InitParallel
    /\ [][NextParallel]_vars
    /\ \A w \in 1..MaxRoutines :
          /\ WF_vars(WorkerCancel(w))
          /\ WF_vars(WorkerEmit(w))
          /\ WF_vars(WorkerRetry(w))

\* ------------------------------------------------------------------ claims
\* The call has ended, by a return or by a panic.
Done == pc = "done"

\* The call returned a value.
Returned == Done /\ res.status = "returned"

\* x^y mod m by repeated multiplication, as normalized digits, for each
\* exponent of the call.
Expected == [i \in DOMAIN ys |-> Bits(PowMod(x, Val(ys[i]), m))]

\* Every exponent of the call is > 0.
AllPositive == \A i \in DOMAIN ys : Len(ys[i]) > 0

\* The preconditions of the Montgomery path: x > 1, odd m > 0, exponents > 0.
ValidCall == x > 1 /\ m > 0 /\ m % 2 = 1 /\ AllPositive

\* The table of the call was built for its (x, m).
TableMatches == tbl.status = "ok" /\ tbl.Base = x /\ tbl.Modulus = m

\* The number of digits of the longest exponent of the call.
LongestExponent == maxWordLenOf(ys)

\* C1: for x > 1, odd m > 0 and y1, y2 > 0, DoubleExp returns
\* [x^y1 mod m, x^y2 mod m].
C1_DoubleExpCorrect ==
    (op = "DoubleExp" /\ Done /\ ValidCall)
        => (res.status = "returned" /\ res.val = Expected)

\* C2: for x > 1, odd m > 0 and y1..y4 > 0, FourfoldExp returns
\* [x^y1 mod m, ..., x^y4 mod m].
C2_FourfoldExpCorrect ==
    (op = "FourfoldExp" /\ Done /\ ValidCall)
        => (res.status = "returned" /\ res.val = Expected)

\* C3: for a valid call of ExpParallel with a table built for (x, m) that
\* covers y, a returned result is x^y mod m, whatever the number of workers,
\* the chunk size and the interleaving.
C3_ExpParallelCorrect ==
    (op = "ExpParallel" /\ Returned /\ ValidCall /\ TableMatches
       /\ tbl.TableSize >= Len(callY))
        => res.val = <<Bits(RefExp(x, callY, m))>>

\* C4: FourfoldExpPrecomputedParallel returns [x^y1 mod m, ..., x^y4 mod m]
\* under every interleaving: the assemble tasks start from the fifteen engine
\* results in their fixed index order, and an output is set only from the
\* value its assemble task has sent.
C4_ParallelFourfoldCorrect ==
    op = "FourfoldExpPrecomputedParallel" =>
        /\ Returned => res.val = Expected
        /\ asm # <<>> =>
              zAll = multiMontgomeryPrecomputed(Bits(m), callSetup.power0, callSetup.k0,
                         callSetup.numWords, callParts, tbl.table)
        /\ \A k \in 1..Len(outs) :
              /\ asm[k] = "done"
              /\ asmOut[k] = assembleOutput(zAll, k, Bits(m), callSetup.k0,
                                             callSetup.numWords)
              /\ Val(outs[k]) = Val(asmOut[k])

\* C4 witness: a call on the parallel path has returned its four outputs,
\* for exponents of different digit counts.
C4_Witness ==
    /\ op = "FourfoldExpPrecomputedParallel" /\ Returned /\ res.setup
    /\ Len(outs) = 4
    /\ Len(ys[1]) # Len(ys[2])
    /\ \E k \in 1..4 : Val(outs[k]) > 1

\* C5: for a valid call and a table built for (x, m) with at least as many
\* rows as the longest exponent has digits, FourfoldExpPrecomputed returns
\* exactly what FourfoldExp returns.
C5_PrecomputedEqualsFourfold ==
    (op = "FourfoldExpPrecomputed" /\ Done /\ ValidCall /\ TableMatches
       /\ tbl.TableSize >= LongestExponent)
        => /\ res.status = "returned"
           /\ res.status = FourfoldExp(x, m, ys).status
           /\ res.val = FourfoldExp(x, m, ys).val

\* C5 witness: a valid call with a matching table has returned, and an
\* exponent has a set bit above bit 0 of a digit above digit 0.
C5_Witness ==
    /\ op = "FourfoldExpPrecomputed" /\ Returned /\ ValidCall /\ TableMatches
    /\ tbl.TableSize >= LongestExponent
    /\ \E i \in 1..4 : Len(ys[i]) >= 2 /\ ys[i][2] >= 2
    /\ \E i \in 1..4 : Val(res.val[i]) > 1

\* C6: every value returned by a call with m > 0 is < m.
C6_ReturnedBelowModulus ==
    (Returned /\ m > 0) => \A i \in DOMAIN res.val : Val(res.val[i]) < m

\* C6 witness: a call on a Montgomery path has returned for a base that is
\* a multiple of the modulus, the value 0.
C6_Witness ==
    /\ Returned /\ res.setup /\ m > 1 /\ x % m = 0
    /\ \A i \in DOMAIN res.val : Val(res.val[i]) = 0

\* C7: every returned big integer is normalized: no most-significant zero
\* digit, and 0 is the empty digit sequence.
C7_ReturnedNormalized ==
    Returned => \A i \in DOMAIN res.val :
                    Len(res.val[i]) = 0 \/ res.val[i][Len(res.val[i])] # 0

\* C7 witness: a call on a Montgomery path has returned a value of fewer
\* digits than the modulus.
C7_Witness ==
    /\ Returned /\ res.setup
    /\ \E i \in DOMAIN res.val : Len(res.val[i]) < Len(Bits(m))

\* C8: for an even m, an exponent 0 or x <= 1, DoubleExp and FourfoldExp
\* return the reference result, and for an even m montgomerySetup is not
\* entered.
C8_DegenerateFallsBack ==
    (op \in {"DoubleExp", "FourfoldExp"} /\ Done
       /\ (m % 2 = 0 \/ ~AllPositive \/ x <= 1))
        => /\ res.status = "returned"
           /\ res.val = Expected
           /\ m % 2 = 0 => ~res.setup

\* C8 witness: DoubleExp has returned for x > 1, positive exponents and an
\* even modulus.
C8_Witness ==
    /\ op = "DoubleExp" /\ Returned
    /\ x > 1 /\ AllPositive /\ m % 2 = 0
    /\ ~res.setup

\* Every returned value is 1.
AllOnes == \A i \in DOMAIN res.val : res.val[i] = <<1>>

\* C9 as stated: for x = 1, every odd m > 0 and positive exponents,
\* DoubleExp and FourfoldExp return ones.
C9_BaseOneAnyOddModulus ==
    (op \in {"DoubleExp", "FourfoldExp"} /\ Done
       /\ x = 1 /\ m > 0 /\ m % 2 = 1 /\ AllPositive)
        => (res.status = "returned" /\ AllOnes)

\* C9 amended: for x = 1, every odd m > 1 and positive exponents, DoubleExp
\* and FourfoldExp return ones (for m = 1 they return zeros).
C9_BaseOneModulusAboveOne ==
    (op \in {"DoubleExp", "FourfoldExp"} /\ Done
       /\ x = 1 /\ m > 1 /\ m % 2 = 1 /\ AllPositive)
        => (res.status = "returned" /\ AllOnes)

\* C9 witness: DoubleExp has returned for x = 1, an odd modulus of two
\* digits and positive exponents.
C9_Witness ==
    /\ op = "DoubleExp" /\ Returned
    /\ x = 1 /\ m > B /\ m % 2 = 1 /\ AllPositive

\* C10: a call of FourfoldExpPrecomputed, FourfoldExpPrecomputedParallel or
\* ExpParallel with a table whose Base is not x or whose Modulus is not m
\* panics and returns no value.
C10_MismatchPanics ==
    (op \in {"FourfoldExpPrecomputed", "FourfoldExpPrecomputedParallel", "ExpParallel"}
       /\ Done /\ tableMismatch(x, m, tbl))
        => res.status = "panic"


\* The call is made for the second time.
Repeated == hist.res # Pending

\* C11: the calls that take a precompute table leave it as it was handed over,
\* at every moment of the call, and a call repeated with the same arguments
\* returns what the first call returned.
C11_TableInvariance ==
    op \in TableCalls =>
        /\ tbl = hist.tbl
        /\ (Returned /\ Repeated /\ hist.res.status = "returned")
              => res.val = hist.res.val


RECURSIVE PowTwoMod(_, _, _)
\* g^(2^k) mod N by k squarings of integers (N > 0).
PowTwoMod(g, k, N) == IF k = 0 THEN g % N ELSE (PowTwoMod(g, k-1, N) ^ 2) % N

\* The entry at position p = W*i + j of the table, in row-major order.
EntryAt(p) == tbl.table[(p \div W) + 1][(p % W) + 1]

\* The entry at position p has w = len(N) digits, each below 2^W, and is
\* congruent to g^(2^p) * R modulo N, R = 2^(W*w).
EntryIsMontgomeryForm(p) ==
    LET w == Len(Bits(tbl.Modulus)) IN
    /\ Len(EntryAt(p)) = w
    /\ \A d \in 1..w : EntryAt(p)[d] \in 0..(B-1)
    /\ Val(EntryAt(p)) < B^w
    /\ Val(EntryAt(p)) % tbl.Modulus
          = (PowTwoMod(tbl.Base, p, tbl.Modulus) * (B^w)) % tbl.Modulus

\* The entry at position p > 0 is the Montgomery square of the entry before it.
EntryIsSquareOfPrevious(p) ==
    p > 0 => EntryAt(p) = montgomery(EntryAt(p-1), EntryAt(p-1), Bits(tbl.Modulus),
                                     k0Of(Bits(tbl.Modulus)[1]), Len(Bits(tbl.Modulus)))

\* C12: every entry of every table NewPrecomputeTable returns is the
\* Montgomery form of g^(2^(W*i+j)) in len(N) digits and the Montgomery
\* square of the entry before it.
C12_TableEntries ==
    tbl.status = "ok" =>
        /\ Len(tbl.table) = tbl.TableSize
        /\ \A i \in 1..tbl.TableSize : Len(tbl.table[i]) = W
        /\ \A p \in 0..(W * tbl.TableSize - 1) :
              EntryIsMontgomeryForm(p) /\ EntryIsSquareOfPrevious(p)

\* The statement of C12 for the tables returned for an odd N.
TableEntriesOddModulus ==
    (tbl.status = "ok" /\ tbl.Modulus % 2 = 1) =>
        /\ Len(tbl.table) = tbl.TableSize
        /\ \A i \in 1..tbl.TableSize : Len(tbl.table[i]) = W
        /\ \A p \in 0..(W * tbl.TableSize - 1) :
              EntryIsMontgomeryForm(p) /\ EntryIsSquareOfPrevious(p)

\* NewPrecomputeTable has returned a table of two rows for an odd modulus of
\* two digits and a base that is not below it.
OddModulusTableBuilt ==
    /\ op = "NewPrecomputeTable" /\ Returned /\ tbl.status = "ok"
    /\ tbl.TableSize = 2 /\ tbl.Modulus % 2 = 1 /\ tbl.Modulus > B
    /\ tbl.Base > tbl.Modulus
    /\ \E p \in 1..(W * tbl.TableSize - 1) : Val(EntryAt(p)) > 1


\* C13: NewPrecomputeTable returns nil, without a panic, for g <= 1, N <= 0 or
\* T <= 0, and for g > 1, odd N > 0 and T > 0 it returns a table of T rows of
\* W entries with Base g and Modulus N.
C13_RejectsOrBuilds ==
    (op = "NewPrecomputeTable" /\ Done) =>
        /\ (x <= 1 \/ m <= 0 \/ tableSize <= 0)
              => (res.status = "returned" /\ tbl.status = "nil")
        /\ (x > 1 /\ m > 0 /\ m % 2 = 1 /\ tableSize > 0)
              => /\ res.status = "returned" /\ tbl.status = "ok"
                 /\ tbl.Base = x /\ tbl.Modulus = m
                 /\ Len(tbl.table) = tableSize
                 /\ \A i \in 1..tableSize : Len(tbl.table[i]) = W


\* The residual r and the common words c rewrite the input a exactly: r has
\* the length of a, over the digits of c it is a minus c and shares no bit
\* with c, and beyond them it is a.
ExactRewrite(a, r, c) ==
    /\ Len(r) = Len(a)
    /\ Len(c) <= Len(a)
    /\ Val(a) = Val(r) + Val(c)
    /\ \A i \in 1..Len(a) :
          IF i <= Len(c)
          THEN a[i] = r[i] + c[i] /\ AndW(r[i], c[i], 0) = 0
          ELSE r[i] = a[i]

\* C14: gcw(a, b) returns (a', b', c) with a = a' + c, b = b' + c, a' AND c
\* = 0, b' AND c = 0, len(a') = len(a), len(b') = len(b), len(c) =
\* min(len(a), len(b)), the digits beyond the shorter input carried into the
\* residual of the longer one, and a and b as they were.
C14_GcwDecomposes ==
    (op = "gcw" /\ Done) =>
        /\ Len(res.val) = 3
        /\ Len(res.val[3]) = Min2(Len(hist.ys[1]), Len(hist.ys[2]))
        /\ ExactRewrite(hist.ys[1], res.val[1], res.val[3])
        /\ ExactRewrite(hist.ys[2], res.val[2], res.val[3])
        /\ \A i \in 1..Len(res.val[3]) :
              res.val[3][i] = AndW(hist.ys[1][i], hist.ys[2][i], 0)
        /\ ys = hist.ys

\* C14 witness: gcw has returned for inputs of different lengths with common
\* bits, and the longer one has a nonzero digit beyond the shorter one.
C14_Witness ==
    /\ op = "gcw" /\ Done
    /\ Len(hist.ys[1]) > Len(hist.ys[2])
    /\ Val(res.val[3]) > 0
    /\ res.val[1][Len(hist.ys[1])] # 0


RECURSIVE MinLen(_)
\* The length of the shortest of the vectors in (a non-empty list).
MinLen(in) ==
    IF Len(in) = 1 THEN Len(in[1]) ELSE Min2(Len(Head(in)), MinLen(Tail(in)))

RECURSIVE AndAll(_, _)
\* The bitwise AND of digit i of every vector of in.
AndAll(in, i) ==
    IF Len(in) = 1 THEN in[1][i] ELSE AndW(Head(in)[i], AndAll(Tail(in), i), 0)

\* The common words c of the inputs in: the per-digit AND of all of them over
\* the length of the shortest.
IsCommonPart(in, c) ==
    /\ Len(c) = MinLen(in)
    /\ \A i \in 1..Len(c) : c[i] = AndAll(in, i)

\* C15: fourfoldGCW returns four fresh residuals and the common part, an exact
\* rewrite of its inputs, which it leaves as they were; threefoldGCW returns
\* the common part and leaves the residuals in its three input vectors.
C15_FoldsDecompose ==
    /\ (op = "fourfoldGCW" /\ Done) =>
          /\ Len(res.val) = 5
          /\ IsCommonPart(hist.ys, res.val[5])
          /\ \A k \in 1..4 : ExactRewrite(hist.ys[k], res.val[k], res.val[5])
          /\ ys = hist.ys
    /\ (op = "threefoldGCW" /\ Done) =>
          /\ Len(res.val) = 1
          /\ IsCommonPart(hist.ys, res.val[1])
          /\ \A k \in 1..3 : ExactRewrite(hist.ys[k], ys[k], res.val[1])

\* C15 witness: threefoldGCW has returned a nonzero common part for inputs of
\* three different lengths, and has changed its inputs.
C15_Witness ==
    /\ op = "threefoldGCW" /\ Done
    /\ Cardinality({Len(hist.ys[k]) : k \in 1..3}) = 3
    /\ Val(res.val[1]) > 0
    /\ \A k \in 1..3 : ys[k] # hist.ys[k]


\* Digit d of the vector v, 0 beyond its length.
DigitOf(v, d) == IF d <= Len(v) THEN v[d] ELSE 0

RECURSIVE SumDigit(_, _, _)
\* The sum of digit d over the vectors of parts with the Go indices in idx.
SumDigit(parts, idx, d) ==
    IF Len(idx) = 0 THEN 0
    ELSE DigitOf(parts[Head(idx) + 1], d) + SumDigit(parts, Tail(idx), d)

\* The fourfold calls, whose coordinators decompose the four exponents.
FourfoldCalls == {"FourfoldExp", "FourfoldExpPrecomputed", "FourfoldExpPrecomputedParallel"}

\* The Montgomery product of the engine result k-1 and of the seven results
\* with the indices of assembleSet(k), for the engine results z and the
\* setup s.
AssembledProduct(z, k, s) ==
    assembleLoop(z[k], [i \in 1..7 |-> z[assembleSet(k)[i] + 1]], Bits(m),
                 s.k0, s.numWords)

\* Each exponent y_k is, digit by digit, its residual plus the seven vectors
\* of parts with the indices of assembleSet(k), and its residual has its
\* length.
PartsRebuild(parts) ==
    /\ Len(parts) = 15
    /\ \A k \in 1..4 :
          /\ Len(parts[k]) = Len(ys[k])
          /\ \A d \in 1..(LongestExponent + 1) :
                DigitOf(ys[k], d)
                    = DigitOf(parts[k], d) + SumDigit(parts, assembleSet(k), d)

\* The Montgomery product of the eight engine results of output k is the
\* Montgomery form of x^(y_k), for the engine results z and the setup s.
ProductsRepresent(z, s) ==
    \A k \in 1..4 :
        Val(AssembledProduct(z, k, s)) % m
            = (PowMod(x, Val(ys[k]), m) * (B ^ s.numWords)) % m

\* C16: after the fourfold, the threefold and the pairwise extractions, each
\* exponent y_k is its residual plus the seven common vectors with the
\* indices of assembleSet(k), and the Montgomery product of the eight engine
\* results is the Montgomery form of x^(y_k).
C16_Reassembly ==
    (op \in FourfoldCalls /\ Done /\ res.setup) =>
        Bind(callSetup, LAMBDA s :
          ~s.panic =>
            Bind(callParts, LAMBDA parts :
              /\ PartsRebuild(parts)
              /\ (op = "FourfoldExp") =>
                    Bind(multiMontgomery(Bits(m), s.power0, s.power1, s.k0,
                                         s.numWords, parts),
                         LAMBDA z : ProductsRepresent(z, s))))

\* C16 witness: FourfoldExp has returned for exponents that share a bit
\* among all four, a bit among three only and a bit among two only.
C16_Witness ==
    /\ op = "FourfoldExp" /\ Returned /\ res.setup
    /\ Val(callParts[5]) > 0
    /\ \E i \in 6..9 : Val(callParts[i]) > 0
    /\ \E i \in 10..15 : Val(callParts[i]) > 0
    /\ \E k \in 1..4 : Val(res.val[k]) > 1


\* Every worker started by the call has ended.
WorkersEnded == \A w \in DOMAIN wpc : wpc[w] = "done"

\* C17: once the coordinator of ExpParallel has exited with workers started,
\* cancel() has been called; every worker then ends; and a worker that ends
\* at case <-ctx.Done() sends nothing on the output channel.
C17_CancelledWorkersEnd ==
    /\ []((op = "ExpParallel" /\ Done /\ wpc # <<>>) => cancelled)
    /\ [][\A w \in DOMAIN wpc :
            (wpc[w] = "select" /\ wpc'[w] = "done") => outputChan' = outputChan]_vars
    /\ (op = "ExpParallel" /\ Done) ~> WorkersEnded

\* C17 witness: the coordinator has returned while a worker is still at its
\* select with a chunk in the queue, and another has ended.
C17_Witness ==
    /\ op = "ExpParallel" /\ Returned /\ cancelled
    /\ \E w \in DOMAIN wpc : wpc[w] = "select"
    /\ \E w \in DOMAIN wpc : wpc[w] = "done"
    /\ Len(inputChan) > 0


\* The chunks that wait in inputChan are chunks of y of wordChunkSize digits,
\* the size the workers scan by.
SplitByChunkSize ==
    \A i \in DOMAIN inputChan :
        /\ inputChan[i].pivot % wordChunkSize = 0
        /\ inputChan[i].wordLen = Min2(wordChunkSize, Len(callY) - inputChan[i].pivot)

\* ExpParallel starts its routines with numRoutines <= 0 replaced by 1.
RoutinesDefault ==
    [][(op = "ExpParallel" /\ pc = "call" /\ pc' = "push")
          => numRoutine' = (IF numRoutine <= 0 THEN 1 ELSE numRoutine)]_vars

\* ExpParallel counts the expected partial products by the chunk size it
\* hands to the workers.
CountByChunkSize ==
    [][(op = "ExpParallel" /\ pc = "call" /\ pc' = "push")
          => counter' = expectedOutputs(Len(callY), wordChunkSize')]_vars

\* C18: ExpParallel replaces numRoutines <= 0 by 1 and wordChunkSize <= 0 by
\* 2, and y is split into chunks, scanned by the workers and counted into
\* expected partial products by that one effective chunk size.
C18_EffectiveChunkSize ==
    /\ RoutinesDefault
    /\ CountByChunkSize
    /\ [][(op = "ExpParallel" /\ pc = "call" /\ pc' = "push")
             => wordChunkSize' = (IF wordChunkSize <= 0 THEN 2 ELSE wordChunkSize)]_vars
    /\ [](op = "ExpParallel" => SplitByChunkSize)


\* C19: montgomerySetup takes a base of any digit length: for x > 1 and odd
\* N > 0 no call that enters it aborts in nat.montgomery, power1 is the
\* Montgomery form of x (x*R mod N, R = 2^(W*len(N))) and power0 that of 1.
C19_SetupAnyLength ==
    (Done /\ res.setup /\ x > 1 /\ m > 0 /\ m % 2 = 1)
        => Bind(callSetup, LAMBDA s :
             /\ ~s.panic
             /\ res.status # "panic"
             /\ Len(s.power1) = s.numWords
             /\ Val(s.power1) % m = (x * B^s.numWords) % m
             /\ Val(s.power0) % m = (B^s.numWords) % m)


\* The operands, the modulus and R of a call of nat.montgomery.
MontX == Val(ys[1])
MontY == Val(ys[2])
MontN == Val(ys[3])
MontR == B^numWords

\* The multiple T*N, 0 <= T < R, that makes x*y + T*N divisible by R, and the
\* quotient (x*y + T*N) / R: the 2n-digit value the loop accumulates.
MontQuotient ==
    LET T == CHOOSE t \in 0..(MontR - 1) : (MontX * MontY + t * MontN) % MontR = 0
    IN  (MontX * MontY + T * MontN) \div MontR

\* C20: for an odd N of w digits with k0 = -N^-1 mod 2^W and operands of
\* exactly w digits, nat.montgomery returns w digits z < 2^(W*w) with
\* z = x*y*R^-1 (mod N), R = 2^(W*w): the accumulated quotient when it is
\* below R (no carry), and the quotient less N, once, when it is not; a call
\* with an operand whose length is not n panics.
C20_MontgomeryContract ==
    (op = "montgomery" /\ Done) =>
        IF montgomeryPanics(ys[1], ys[2], ys[3], numWords)
        THEN res.status = "panic"
        ELSE /\ res.status = "result"
             /\ Bind(res.val[1], LAMBDA z :
                  /\ Len(z) = numWords
                  /\ \A i \in 1..Len(z) : z[i] \in 0..(B-1)
                  /\ (Val(z) * MontR) % MontN = (MontX * MontY) % MontN
                  /\ Bind(MontQuotient, LAMBDA q :
                       Val(z) = IF q >= MontR THEN q - MontN ELSE q))

\* C20 witness: nat.montgomery has returned for two-digit operands that are
\* not below N, after a carry out of the accumulator and the subtraction of N.
C20_Witness ==
    /\ op = "montgomery" /\ Done /\ res.status = "result"
    /\ numWords = 2
    /\ MontX >= MontN /\ MontY >= MontN
    /\ MontQuotient >= MontR
    /\ Val(res.val[1]) = MontQuotient - MontN


\* The batch of a call of multiMontgomery as integers, and R = 2^(W*len(N)).
LadderR == B^callSetup.numWords

\* v is congruent to g^e * R modulo N for the base g = x and N = m.
IsMontgomeryPower(v, e) == Val(v) % m = (PowMod(x, e, m) * LadderR) % m

\* C21: in multiMontgomery, before bit position p = W*i + j is processed
\* squaredPower is congruent to g^(2^p)*R and every zList[k] to
\* g^(exponents[k] mod 2^p)*R modulo N; the returned results[k] are congruent
\* to g^(exponents[k])*R, for exponents of different lengths, with
\* most-significant zero digits, or all zero.
C21_LadderInvariant ==
    /\ (op = "multiMontgomery" /\ pc = "ladder") =>
          /\ Val(squaredPower) % m = (PowTwoMod(x, bitPos, m) * LadderR) % m
          /\ Len(zList) = Len(yList)
          /\ \A k \in 1..Len(yList) :
                IsMontgomeryPower(zList[k], Val(yList[k]) % (2^bitPos))
    /\ (op = "multiMontgomery" /\ Done) =>
          /\ res.status = "result"
          /\ Len(res.val) = Len(ys)
          /\ \A k \in 1..Len(ys) : IsMontgomeryPower(res.val[k], Val(ys[k]))
          /\ res.val = multiMontgomery(Bits(m), callSetup.power0, callSetup.power1,
                                       callSetup.k0, callSetup.numWords, ys)

\* C21 witness: multiMontgomery has returned for a batch with exponents of
\* different lengths, one of them with a most-significant zero digit and one
\* of them nonzero in its last digit, after at least one multiplication.
C21_Witness ==
    /\ op = "multiMontgomery" /\ Done /\ res.status = "result"
    /\ \E j, k \in 1..Len(ys) :
          /\ Len(ys[j]) # Len(ys[k])
          /\ ys[j][Len(ys[j])] = 0 /\ ys[k][Len(ys[k])] # 0
    /\ multiplies > 0 /\ m > 3


RECURSIVE OnesOf(_)
\* The number of 1 bits of the integer v >= 0.
OnesOf(v) == IF v = 0 THEN 0 ELSE (v % 2) + OnesOf(v \div 2)

RECURSIVE TotalOnes(_)
\* The number of 1 bits over all exponents of a batch.
TotalOnes(batch) ==
    IF Len(batch) = 0 THEN 0 ELSE OnesOf(Val(Head(batch))) + TotalOnes(Tail(batch))

RECURSIVE LongestOf(_)
\* The digit count of the longest exponent of a batch.
LongestOf(batch) ==
    IF Len(batch) = 0 THEN 0
    ELSE IF Len(Head(batch)) > LongestOf(Tail(batch)) THEN Len(Head(batch))
    ELSE LongestOf(Tail(batch))

\* C22: one run of multiMontgomery makes exactly W * max_len squarings,
\* max_len the digit count of the longest exponent of the batch, whatever the
\* number of exponents, and as many multiplications as there are 1 bits over
\* all exponents of the batch.
C22_LadderCost ==
    (op = "multiMontgomery" /\ Done) =>
        /\ squarings = W * LongestOf(ys)
        /\ multiplies = TotalOnes(ys)

\* C22 witness: multiMontgomery has returned for a batch of fifteen exponents
\* whose longest has three digits, after at least one multiplication.
C22_Witness ==
    /\ op = "multiMontgomery" /\ Done
    /\ Len(ys) = 15
    /\ multiplies > 0 /\ squarings = 3 * W


\* The moves of a worker: from the select to the test of len(pivots) and
\* back, from the test to the end with an emission, from the select to the
\* end on cancellation.
WorkerMoves ==
    { <<"select", "check">>, <<"check", "select">>, <<"check", "done">>,
      <<"select", "done">> }

\* One step of the program, seen from worker w.
WorkerStepOk(w) ==
    /\ (wpc[w] # wpc'[w]) => <<wpc[w], wpc'[w]>> \in WorkerMoves
    /\ (wpc[w] = "done") => (wpc'[w] = "done" /\ wacc'[w] = wacc[w])
    /\ (wpc[w] = "select" /\ wpc'[w] = "done") => (cancelled /\ outputChan' = outputChan)
    /\ (wpc[w] = "check" /\ wpc'[w] = "done")
          => (Len(inputChan) = 0 /\ outputChan' = Append(outputChan, wacc[w]))
    /\ (wacc'[w] # wacc[w])
          => (wpc[w] = "select" /\ wpc'[w] = "select" /\ Len(inputChan) > 0
              /\ inputChan' = Tail(inputChan))

\* C23: a worker of ExpParallel only moves from idle to working and back, to
\* emitting and then to the end, or to the end on cancellation: it emits its
\* accumulator at most once, only after it found the queue empty, takes no
\* chunk and multiplies nothing after it emitted, and never acts once ended.
C23_WorkerLifecycle ==
    [][/\ \A w \in DOMAIN wpc : w \in DOMAIN wpc' => WorkerStepOk(w)
       /\ (Len(outputChan') > Len(outputChan))
             => \E w \in DOMAIN wpc : wpc[w] = "check" /\ wpc'[w] = "done"
       /\ (wpc' # <<>> /\ Len(inputChan') < Len(inputChan))
             => /\ inputChan' = Tail(inputChan) /\ wpc' = wpc
                /\ \E w \in DOMAIN wpc : wpc[w] = "select"]_vars

\* C23 witness: a call of ExpParallel with two workers has returned; one
\* worker has ended with chunks multiplied into its accumulator, the other
\* with none.
C23_Witness ==
    /\ op = "ExpParallel" /\ Returned /\ Len(wpc) = 2
    /\ \E v, w \in DOMAIN wpc :
          /\ wpc[v] = "done" /\ wacc[v] # callSetup.power0
          /\ wpc[w] = "done" /\ wacc[w] = callSetup.power0


\* The number of partial products the folding routine has multiplied into
\* ret: counter starts at the expected number and drops by one per fold.
FoldsMade == expectedOutputs(Len(callY), wordChunkSize) - counter

\* C24: the coordinator of ExpParallel folds exactly numRoutines partial
\* products, one from each worker it started, and starts the conversion out
\* of Montgomery form only after all of them are folded: when it converts,
\* every worker has emitted and no emitted product waits unfolded.
C24_FoldsEveryWorker ==
    (op = "ExpParallel" /\ pc = "convert") =>
        /\ FoldsMade = numRoutine
        /\ outputChan = <<>>
        /\ \A w \in DOMAIN wpc : wpc[w] = "done"


\* The number of chunks the coordinator pushes for the exponent of the call.
ChunksPushed == expectedOutputs(Len(callY), pushStride)

\* C25: when numRoutines exceeds the number of chunks of y, ExpParallel still
\* returns x^y mod m: an idle worker contributes the Montgomery form of 1 and
\* no product that carries bits of y is dropped.
C25_MoreWorkersThanChunks ==
    (op = "ExpParallel" /\ Returned /\ res.setup /\ ValidCall /\ TableMatches
       /\ tbl.TableSize >= Len(callY) /\ numRoutine > ChunksPushed)
        => res.val = <<Bits(PowMod(x, Val(callY), m))>>


\* The buffers that hold the live values of a routine: its results z[k] and
\* its squaredPower.
LiveBufs(b) == { b.z[k].id : k \in 1..Len(b.z) } \cup { b.sq[k].id : k \in 1..Len(b.sq) }

\* In routine state b: every montgomery call of the last step wrote a buffer
\* that is neither an operand nor the modulus nor a buffer the routine only
\* reads, and left as scratch a buffer other than the result and other than
\* those; the live values sit in pairwise distinct buffers and temp in yet
\* another one.
BuffersApart(b) ==
    /\ \A i \in 1..Len(b.calls) :
          /\ b.calls[i].out \notin {b.calls[i].x, b.calls[i].y, b.calls[i].m}
          /\ b.calls[i].out \notin b.keep
          /\ b.calls[i].scratch # b.calls[i].out
          /\ b.calls[i].scratch \notin b.keep
    /\ \A j, k \in 1..Len(b.z) : j # k => b.z[j].id # b.z[k].id
    /\ \A k \in 1..Len(b.z) : \A j \in 1..Len(b.sq) : b.sq[j].id # b.z[k].id
    /\ b.temp.id \notin (LiveBufs(b) \cup b.keep \cup {b.m})

\* C26: in every montgomery call of the engines, of assembleAndConvert, of
\* the parallel worker and of the table construction the output buffer is
\* neither operand nor the modulus; after each swap the live value and the
\* scratch are distinct buffers, no two live results z[k] share a buffer, and
\* no table entry and no shared common result becomes scratch.
C26_NoAliasing ==
    \A r \in DOMAIN bufs : bufs[r] # NoBufs => BuffersApart(bufs[r])

\* C26 witness: FourfoldExpPrecomputedParallel has returned after an engine
\* task that made more than one montgomery call and assemble tasks that made
\* their eight calls each, every call on the result of the one before, on
\* results shared between them.
C26_Witness ==
    /\ op = "FourfoldExpPrecomputedParallel" /\ Returned
    /\ Len(bufs) = 8
    /\ \E r \in 1..4 : Len(bufs[r].calls) >= 2
    /\ \A r \in 5..8 :
          /\ Len(bufs[r].calls) = 8
          /\ \A i \in 2..8 : bufs[r].calls[i].x = bufs[r].calls[i-1].out
    /\ \E i \in 1..8 : bufs[5].calls[i].y \in bufs[6].keep


\* The pivots of the chunks the coordinator has pushed, of those that wait in
\* inputChan, and of those a worker has taken.
PushedPivots == { l \in 0..(pushIdx - 1) : l % pushStride = 0 }
WaitingPivots == { inputChan[i].pivot : i \in 1..Len(inputChan) }
TakenPivots == PushedPivots \ WaitingPivots

\* The number of times digit d of y (counted from 0) was scanned: a worker
\* that takes the pivot l scans the digits l .. l + wordChunkSize - 1.
TimesScanned(d) == Cardinality({ l \in TakenPivots : l <= d /\ d < l + wordChunkSize })

\* C27: when the coordinator of ExpParallel has the folded result, every chunk
\* of y was pushed and taken by a worker, none waits in the queue, and every
\* 1 bit of y was multiplied into a worker's accumulator exactly once.
C27_EveryChunkOnce ==
    (op = "ExpParallel" /\ pc = "convert") =>
        /\ pushIdx >= Len(callY)
        /\ inputChan = <<>>
        /\ \A d \in 1..Len(callY) : callY[d] # 0 => TimesScanned(d - 1) = 1

\* ------------------------------------------- ExpParallel, every routine fair
\* The step worker w is ready to take, as a condition on the state.
workerReady(w) ==
    IF w \notin DOMAIN wpc THEN "none"
    ELSE IF wpc[w] = "select" /\ cancelled THEN "cancel"
    ELSE IF wpc[w] = "select" /\ Len(inputChan) = 0 THEN "default"
    ELSE IF wpc[w] = "check" /\ Len(inputChan) > 0 THEN "retry"
    ELSE IF wpc[w] = "check" /\ Len(outputChan) < numRoutine THEN "emit"
    ELSE "none"

\* Worker w can receive a chunk at its select.
TakeReady(w) == w \in DOMAIN wpc /\ wpc[w] = "select" /\ Len(inputChan) > 0

\* Worker w leaves its current position (cancel, default, emit or retry).
workerMoved(w) == w \in DOMAIN wpc /\ wpc'[w] # wpc[w]

\* Worker w received the chunk at the head of the queue.
workerTook(w) ==
    /\ TakeReady(w)
    /\ inputChan' = Tail(inputChan)
    /\ \A v \in DOMAIN wpc \ {w} : wacc'[v] = wacc[v] /\ bufs'[v] = bufs[v]

\* The coordinator can take its next step.
mainReady ==
    \/ pc = "call" \/ pc = "convert"
    \/ pc = "push" /\ Len(inputChan) < inputCap(numRoutine)
    \/ pc = "wait" /\ fpc = "send"

\* The coordinator took a step.
mainMoved == pc' # pc \/ pushIdx' # pushIdx

\* The folding routine can receive a product; it received one.
foldReady == fpc = "recv" /\ Len(outputChan) > 0
foldMoved == counter' # counter

\* One call of ExpParallel under a scheduler that never leaves a routine that
\* can run waiting forever: the coordinator, the folding routine and every
\* worker, whatever step it is ready for.  Weak fairness of each routine is
\* written out on its position, so that it is decided without evaluating the
\* routine's arithmetic.
SpecParallelFair ==
    /\ InitParallel
    /\ [][NextParallel]_vars
    /\ ([]<>(~mainReady) \/ []<><<mainMoved>>_vars)
    /\ ([]<>(~foldReady) \/ []<><<foldMoved>>_vars)
    /\ \A w \in 1..MaxRoutines :
          /\ ([]<>(workerReady(w) = "none") \/ []<><<workerMoved(w)>>_vars)
          /\ ([]<>(~TakeReady(w)) \/ []<><<workerTook(w)>>_vars)

\* A valid call of ExpParallel with a table built for it.
ValidParallelCall ==
    op = "ExpParallel" /\ ValidCall /\ TableMatches /\ tbl.TableSize >= Len(callY)

\* Every fair behaviour of a valid call comes to the return.
AlwaysReturns == ValidParallelCall => <>Returned

\* C28: for every valid input ExpParallel returns under every fair schedule;
\* so a valid call that has not returned is never in a state where no
\* routine can take a step: the coordinator never blocks for ever at a push
\* or waiting for the folded result.
C28_NeverBlocked ==
    ValidParallelCall =>
        \/ Returned
        \/ mainReady
        \/ foldReady
        \/ \E w \in 1..MaxRoutines : workerReady(w) # "none" \/ TakeReady(w)

\* ------------------------------------------------------------------- C29
ExportedCalls ==
    {"DoubleExp", "FourfoldExp", "FourfoldExpPrecomputed", "FourfoldExpPrecomputedParallel"}

\* C29: no step of a call of DoubleExp, FourfoldExp, FourfoldExpPrecomputed or
\* FourfoldExpPrecomputedParallel changes the caller's x, m or the digits of
\* an exponent; what the decomposition writes in place is storage it made.
C29_CallerUnchanged ==
    [][ \/ op \notin ExportedCalls
        \/ x' = x /\ m' = m /\ ys' = ys ]_vars

\* The vectors fourfoldGCW made from the caller's exponents, and what the
\* whole decomposition has left in them.
MadeByFourfoldGCW == storeFourfoldGCW(ys, <<1, 2, 3, 4>>).h
LeftByDecomposition == storeFourfold(ys, <<1, 2, 3, 4>>).h

\* A call of FourfoldExp has returned from the engine; threefoldGCW has
\* written a vector made by fourfoldGCW (three exponents share a bit the
\* fourth lacks), the caller's exponents are as they were, and the storage
\* holds the 15 vectors of the decomposition.
C29_Witness ==
    /\ op = "FourfoldExp" /\ pc = "done"
    /\ res.status = "returned" /\ res.setup
    /\ ys = hist.ys
    /\ \E r \in 5..8 : LeftByDecomposition[r] # MadeByFourfoldGCW[r]
    /\ SubSeq(LeftByDecomposition, 1, 4) = ys
    /\ storeValues(storeFourfold(ys, <<1, 2, 3, 4>>)) = fourfoldDecompose(ys)
    /\ storeValues(Bind(storeNewNat(ys), LAMBDA c : storeFourfold(c.h, c.out)))
          = fourfoldDecompose(ys)


\* ------------------------------------------------------------------- C30
\* The exponents a vector of the decomposition stands for, in the order the
\* vectors are handed to the engine: the four residuals, the common words of
\* all four, of the four triples and of the six pairs.
PartSubset ==
    << {1}, {2}, {3}, {4}, {1, 2, 3, 4}, {1, 2, 3}, {1, 2, 4}, {1, 3, 4}, {2, 3, 4},
       {1, 2}, {3, 4}, {1, 3}, {2, 4}, {1, 4}, {2, 3} >>

\* The bit positions of a batch, and the exponents of y4 with bit p set.
BitPositions(batch) == 0..(W * LongestOf(batch) - 1)
HaveBit(y4, p) == { k \in 1..4 : bitSet(y4[k], p \div W, p % W) }

\* parts is a partition of the bits of y4: bit p is set in the vector of the
\* subset S exactly when S is the set of exponents that have bit p, and the
\* vectors hold as many 1 bits as there are positions set in some exponent.
BitsPartitioned(y4, parts) ==
    /\ Len(parts) = 15
    /\ \A p \in BitPositions(y4) : \A i \in 1..15 :
          bitSet(parts[i], p \div W, p % W) <=> (PartSubset[i] = HaveBit(y4, p))
    /\ \A i \in 1..15 : Len(parts[i]) <= LongestOf(y4)
    /\ TotalOnes(parts) = Cardinality({ p \in BitPositions(y4) : HaveBit(y4, p) # {} })

\* The four exponents whose decomposition is a batch of the ladder.
LadderFour == << <<3, 1>>, <<1, 3>>, <<2, 2, 1>>, <<B-1>> >>

\* The four residuals among parts are pairwise bit-disjoint.
ResidualsDisjoint(y4, parts) ==
    \A i, k \in 1..4 : \A p \in BitPositions(y4) :
        (i # k /\ bitSet(parts[i], p \div W, p % W)) => ~bitSet(parts[k], p \div W, p % W)

\* C30: after the fourfold decomposition every bit position is set in at most
\* one of the 15 vectors handed to the engine, in the vector of the subset S
\* exactly when S is the set of exponents with that bit; the four residuals
\* are pairwise bit-disjoint, and the engine makes one multiplication per bit
\* position set in y1 OR y2 OR y3 OR y4.
C30_BitPartition ==
    /\ (op \in FourfoldCalls /\ \A k \in 1..4 : Len(ys[k]) > 0) =>
          Bind(callParts, LAMBDA parts :
               BitsPartitioned(ys, parts) /\ ResidualsDisjoint(ys, parts))
    /\ (op = "multiMontgomery" /\ Done /\ Len(ys) = 15) =>
          (ys = fourfoldDecompose(LadderFour) =>
              multiplies = Cardinality({ p \in BitPositions(LadderFour) :
                                            HaveBit(LadderFour, p) # {} }))

\* A fourfold call has returned from the engine with exponents that share
\* bits among all four, among three and among two of them.
C30_Witness ==
    /\ op \in FourfoldCalls /\ Done
    /\ res.status = "returned" /\ res.setup
    /\ Bind(callParts, LAMBDA parts :
          \E j \in 6..9, k \in 10..15 :
             Val(parts[5]) > 0 /\ Val(parts[j]) > 0 /\ Val(parts[k]) > 0)
====
